---- MODULE Spec2Model ----
(***************************************************************************)
(* Model of the image generation pipeline of gpt-browser:                  *)
(*   - the streaming handler  POST /api/generate-image  (route.ts 225-537) *)
(*   - the single-shot handler PUT /api/generate-image  (route.ts 540-628) *)
(*   - GPTImage1Provider.generateStream / generate      (image-providers)  *)
(*   - generateImagePromptFromHTML                      (describe-html)    *)
(*   - getCachedImage / cacheImage                      (image-cache.ts)   *)
(* One behaviour is one request.  Every await of a handler is a position   *)
(* of pc; the action that leaves the position models the code that runs    *)
(* when the awaited call settles, up to the next await.  The outcomes of   *)
(* the remote calls (blob store, OpenAI, network) are inputs, drawn with   *)
(* \E.  trace is the history of what the handler did: every               *)
(* controller.enqueue, every collaborator call it started, every           *)
(* controller.close, and the client's cancel, in program order.            *)
(*                                                                         *)
(* Strings are sequences of one-character strings.  An artifact (base64    *)
(* image data) is a number in 1..MaxArtifact; 0 is the empty string and    *)
(* Absent an undefined field.                                              *)
(***************************************************************************)
EXTENDS Integers, Sequences, FiniteSets, TLC

\* ---------------------------------------------------------------- bounds
MaxStream == 2      \* events the OpenAI image stream delivers at most
MaxArtifact == 1    \* distinct image payloads
MaxText == 1        \* length of the text the describe model returns

MaxUrlLen == 3       \* length of the urls whose cache keys are derived
MaxWriters == 2      \* concurrent cacheImage calls for one key
MaxProviders == 2    \* providers in the registry
MaxChainLen == 3     \* length of a fallback chain
MaxOver == 2         \* prompt lengths go up to maxPromptLength + MaxOver
MaxEvents == 3       \* events the hook reads from one response

\* ------------------------------------------------------------- constants
maxPromptLength == 32000
encodedUrlLimit == 100

Absent == -1
Threw == -2          \* in place of a result: the call rejected
Artifacts == 1..MaxArtifact
Chars == {" ", "x"}
PNG == "image/png"

\* the literal the route puts in front of the description
PromptPrefix == <<"A", "l", "w", "a", "y", "s", ":">>
\* the fixed prompt generateImagePromptFromHTML falls back to
FallbackPrompt == <<"A", " ", "w", "e", "b", "s", "i", "t", "e">>

VARIABLES
    mode,            \* "POST" (streaming) or "PUT" (single-shot)
    pc,              \* position of the handler
    cancelled,       \* the flag of route.ts:243
    trace,           \* history: events enqueued, calls started, close, cancel
    cachedResult,    \* the handler's local: what getCachedImage returned
    store,           \* the blob store entry of the request's url
    storeTasks,      \* the cacheImage calls in flight or settled
    describeOut,     \* what the describe model call did (input, recorded)
    imagePrompt,     \* result of generateImagePromptFromHTML
    genPrompt,       \* the prompt the provider sent to the backend
    genState,        \* the generator generateStream returned: "idle",
                     \* "running", "returned", "threw", "closed" (the
                     \* consumer left its loop early)
    upCount,         \* OpenAI stream events consumed by generateStream
    lastPartialImage,\* generateStream's local of that name (0: null)
    yielded,         \* history: the items generateStream yielded
    finalImageSent,  \* the route's local of that name
    response,        \* the PUT handler's JSON response
    validation,      \* the handler's local: what validateURL returned
    html,            \* the handler's local: "unset", "html" (fetchHTML
                     \* returned) or "threw"
    keys,            \* cache keys: two (url, provider) pairs and their keys
    lookup,          \* a getCachedImage call, step by step
    chain,           \* a SmartImageProvider.generate call, step by step
    prov,            \* a GPTImage1Provider call up to its backend request
    hook,            \* the state of useImageGeneration while it reads events
    usage,           \* a generateImageFromHTML call or a chain construction
    fetch,           \* a fetchHTML call, step by step
    overlap,         \* useImageGeneration with two generateImage calls
    sse,             \* the read loop of useImageGeneration on a chunked body
    vurl,            \* a validateURL call, step by step
    dual             \* a request of the dual-generation endpoint

\* the variables of the request handlers
pipeVars == <<mode, pc, cancelled, trace, cachedResult, store, storeTasks,
              describeOut, imagePrompt, genPrompt, genState, upCount,
              lastPartialImage, yielded, finalImageSent, response,
              validation, html>>

\* the variables of the cache key, cache lookup and fallback chain parts
moreVars == <<overlap, sse, vurl, dual>>
unitVars == <<prov, hook, usage, fetch, moreVars>>
auxVars == <<keys, lookup, chain, unitVars>>

vars == <<pipeVars, auxVars>>

\* ------------------------------------------------------------ trace items
Ev(step, image, mediaType, msg) ==
    [t |-> "event", name |-> step, image |-> image, mediaType |-> mediaType,
     msg |-> msg]

Call(fn, image) ==
    [t |-> "call", name |-> fn, image |-> image, mediaType |-> "", msg |-> ""]

Close == [t |-> "close", name |-> "close", image |-> Absent, mediaType |-> "",
          msg |-> ""]

CancelMark == [t |-> "cancel", name |-> "cancel", image |-> Absent,
               mediaType |-> "", msg |-> ""]

Done == Ev("[DONE]", Absent, "", "")

\* the catch block without its error event
CatchError_Swallows(msg) == <<Close>>

\* a catch block that calls the failed collaborator once more
CatchError_Reinvokes(msg) ==
    <<Ev("error", Absent, "", msg),
      Call(IF msg = "fetch" THEN "fetchHTML" ELSE "generateStream", Absent),
      Close>>

\* the catch block of the streaming handler
CatchError(msg) == <<Ev("error", Absent, "", msg), Close>>


\* ------------------------------------------------------------- pure parts
\* String.prototype.trim
RECURSIVE TrimLeft(_)
TrimLeft(s) ==
    IF s # <<>> /\ Head(s) = " " THEN TrimLeft(Tail(s)) ELSE s

RECURSIVE TrimRight(_)
TrimRight(s) ==
    IF s # <<>> /\ s[Len(s)] = " " THEN TrimRight(SubSeq(s, 1, Len(s) - 1))
    ELSE s

Trim(s) == TrimRight(TrimLeft(s))

\* every string over Chars of length at most n
RECURSIVE TextsUpTo(_)
TextsUpTo(n) ==
    IF n = 0 THEN {<<>>}
    ELSE TextsUpTo(n - 1) \cup
         {Append(s, c) : s \in {x \in TextsUpTo(n - 1) : Len(x) = n - 1},
                         c \in Chars}

\* what the chat completion behind generateImagePromptFromHTML can do:
\* fail, or return a message content (<<>> also stands for a missing one)
DescribeOutcomes ==
    {[kind |-> "threw", text |-> <<>>]} \cup
    {[kind |-> "text", text |-> s] : s \in TextsUpTo(MaxText)}

\* generateImagePromptFromHTML without its fallback prompt
GenerateImagePromptFromHTML_NoFallback(out) ==
    IF out.kind = "threw" THEN <<>> ELSE Trim(out.text)

GenerateImagePromptFromHTML(out) ==
    IF out.kind = "threw" THEN FallbackPrompt
    ELSE IF out.text = <<>> \/ Len(Trim(out.text)) = 0 THEN FallbackPrompt
    ELSE Trim(out.text)

\* a validatePrompt that lets every prompt through as it is
validatePrompt_NoTruncation(prompt) == prompt

\* ImageProvider.validatePrompt
validatePrompt(prompt) ==
    IF Len(prompt) > maxPromptLength THEN SubSeq(prompt, 1, maxPromptLength)
    ELSE prompt

\* the results validateURL can return (reason "": no reason field)
ValidationResults ==
    {[isValid |-> TRUE, category |-> "safe", reason |-> ""],
     [isValid |-> TRUE, category |-> "potentially_unsafe",
      reason |-> "May contain mixed or user-generated content"],
     [isValid |-> FALSE, category |-> "unsafe", reason |-> "Invalid URL format"],
     [isValid |-> FALSE, category |-> "unsafe",
      reason |-> "URL deemed unsafe for scraping"]}

\* the handler's local validation before validateURL has resolved
NoValidation == [isValid |-> TRUE, category |-> "none", reason |-> ""]

\* the error text without the reason
ValidationFailedMessage_NoReason(v) == "URL validation failed"

\* the error text of a rejected url
ValidationFailedMessage(v) == "URL validation failed: " \o v.reason

\* the validated event without the warning
ValidatedMessage_NoWarning(v) == "URL validated as safe"

\* the message of the validated event
ValidatedMessage(v) ==
    IF v.category = "potentially_unsafe"
    THEN "URL validated with warning: " \o
         (IF v.reason = "" THEN "Proceeding with caution" ELSE v.reason)
    ELSE "URL validated as safe"

\* image data of an OpenAI event or response: b64_json present (data is the
\* payload), or only a url (data is what fetching it gives: -1 the fetch
\* throws, 0 an empty body, 1 the bytes of artifact 1), or neither
ImageData ==
    {[src |-> "b64", data |-> a] : a \in Artifacts} \cup
    {[src |-> "url", data |-> a] : a \in {-1, 0, 1}} \cup
    {[src |-> "none", data |-> 0]}

\* the events of the OpenAI image stream
UpstreamEvents ==
    {[type |-> "partial_image", src |-> d.src, data |-> d.data] :
        d \in {x \in ImageData : x.src # "url"}} \cup
    {[type |-> "image", src |-> d.src, data |-> d.data] : d \in ImageData} \cup
    {[type |-> "completed", src |-> d.src, data |-> d.data] : d \in ImageData} \cup
    {[type |-> "other", src |-> "none", data |-> 0]}

Item(isPartial, base64, idx) ==
    [isPartial |-> isPartial, base64 |-> base64, mediaType |-> PNG,
     partialIndex |-> idx]

NoItem == Item(FALSE, Absent, Absent)

\* One turn of the for-await loop of generateStream on event ev: what it
\* yields (if anything), whether it throws, whether it returns afterwards,
\* and the new lastPartialImage.  idx is partial_image_index.
GenStep(ev, lastPartial, idx) ==
    LET res(y, item, thr, ret, lp) ==
            [yields |-> y, item |-> item, throws |-> thr, returns |-> ret,
             lastPartial |-> lp]
    IN
    CASE ev.type = "partial_image" ->
            IF ev.src = "b64"
            THEN res(TRUE, Item(TRUE, ev.data, idx), FALSE, FALSE, ev.data)
            ELSE res(FALSE, NoItem, FALSE, FALSE, lastPartial)
      [] ev.type = "image" ->
            IF ev.src = "b64"
            THEN res(TRUE, Item(FALSE, ev.data, Absent), FALSE, FALSE, lastPartial)
            ELSE IF ev.src = "url"
            THEN IF ev.data = -1
                 THEN res(FALSE, NoItem, TRUE, FALSE, lastPartial)
                 ELSE res(TRUE, Item(FALSE, ev.data, Absent), FALSE, FALSE,
                          lastPartial)
            ELSE res(FALSE, NoItem, FALSE, FALSE, lastPartial)
      [] ev.type = "completed" ->
            IF ev.src = "b64"
            THEN res(TRUE, Item(FALSE, ev.data, Absent), FALSE, TRUE, lastPartial)
            ELSE IF ev.src = "url"
            THEN IF ev.data = -1
                 THEN res(FALSE, NoItem, TRUE, FALSE, lastPartial)
                 ELSE IF ev.data # 0
                 THEN res(TRUE, Item(FALSE, ev.data, Absent), FALSE, TRUE,
                          lastPartial)
                 ELSE res(FALSE, NoItem, FALSE, TRUE, lastPartial)
            ELSE IF lastPartial # 0
            THEN res(TRUE, Item(FALSE, lastPartial, Absent), FALSE, TRUE,
                     lastPartial)
            ELSE res(FALSE, NoItem, FALSE, TRUE, lastPartial)
      [] OTHER -> res(FALSE, NoItem, FALSE, FALSE, lastPartial)

\* what the images.generate response of the single-shot generate can be
GenerateResponses ==
    {[kind |-> "throws", src |-> "none", data |-> 0],
     [kind |-> "nodata", src |-> "none", data |-> 0]} \cup
    {[kind |-> "data", src |-> d.src, data |-> d.data] : d \in ImageData}

\* GPTImage1Provider.generate: the base64 it returns, or Absent when it throws
Generate(r) ==
    IF r.kind # "data" THEN Absent
    ELSE IF r.src = "b64" THEN r.data
    ELSE IF r.src = "url" THEN (IF r.data = -1 THEN Absent ELSE r.data)
    ELSE Absent

\* the blob store entry of a url: the image object and the metadata object,
\* each Absent (missing) or the artifact of the cacheImage call that wrote it
StoreStates == [image : {Absent, 0} \cup Artifacts, meta : {Absent, 0} \cup Artifacts]

\* the entries a request can find: nothing, a complete entry, or what a
\* store leaves behind when one of its two writes failed
InitialStores ==
    {s \in StoreStates : s.image \in {Absent, 1} /\ s.meta \in {Absent, 1}}

\* getCachedImage: Absent (null) or the base64 of the cached result.
\* readsOk: the head requests and content fetches that follow the existence
\* checks succeed
GetCachedImage(st, readsOk) ==
    IF st.image = Absent \/ st.meta = Absent THEN Absent
    ELSE IF ~readsOk THEN Absent
    ELSE st.image

\* ------------------------------------------------------------------ Init
\* the cache key, cache lookup and fallback chain parts are not in use
NoKeys == <<>>
NoLookup == <<>>
NoChain == <<>>

\* no provider call, hook, usage call or fetchHTML call is being looked at
MoreIdle ==
    /\ overlap = <<>>
    /\ sse = <<>>
    /\ vurl = <<>>
    /\ dual = <<>>

UnitsIdle ==
    /\ prov = <<>>
    /\ hook = <<>>
    /\ usage = <<>>
    /\ fetch = <<>>
    /\ MoreIdle

\* no key derivation, cache lookup or chain traversal is being looked at
AuxIdle ==
    /\ keys = NoKeys
    /\ lookup = NoLookup
    /\ chain = NoChain

NoDescribe == [kind |-> "none", text |-> <<>>]

\* describeOut, imagePrompt and genPrompt are locals that are dead once the
\* provider has sent its request: the step that follows drops them
DropPromptLocals ==
    /\ describeOut' = NoDescribe
    /\ imagePrompt' = <<>>
    /\ genPrompt' = <<>>

Init ==
    /\ mode \in {"POST", "PUT"}
    /\ pc = "init"
    /\ cancelled = FALSE
    /\ trace = <<>>
    /\ store \in InitialStores
    /\ storeTasks = <<>>
    /\ cachedResult = Absent
    /\ genState = "idle"
    /\ describeOut = NoDescribe
    /\ imagePrompt = <<>>
    /\ genPrompt = <<>>
    /\ upCount = 0
    /\ lastPartialImage = 0
    /\ yielded = <<>>
    /\ finalImageSent = FALSE
    /\ response = [status |-> 0, image |-> Absent, cached |-> FALSE]
    /\ validation = NoValidation
    /\ html = "unset"
    /\ keys = NoKeys
    /\ lookup = NoLookup
    /\ chain = NoChain
    /\ UnitsIdle

\* --------------------------------------------------------------- cacheImage
\* a cacheImage call: its two puts run in parallel (Promise.all)
NewStoreTask(base64) ==
    [art |-> base64, img |-> "pending", meta |-> "pending"]

\* Promise.all of the two puts: pending, fulfilled when both are, rejected as
\* soon as one is
PutsSettled(task) ==
    IF task.img = "failed" \/ task.meta = "failed" THEN "rejected"
    ELSE IF task.img = "ok" /\ task.meta = "ok" THEN "fulfilled"
    ELSE "pending"

\* cacheImage with a catch block that rethrows
cacheImage_Rethrows(task) ==
    IF PutsSettled(task) = "pending" THEN "pending"
    ELSE IF PutsSettled(task) = "rejected" THEN "rejected"
    ELSE "resolved"

\* the promise cacheImage returns: the catch block logs and does not rethrow
cacheImage(task) ==
    IF PutsSettled(task) = "pending" THEN "pending" ELSE "resolved"

\* the put of the image object completes
Store_PutImage(i, ok) ==
    /\ i \in DOMAIN storeTasks
    /\ storeTasks[i].img = "pending"
    /\ storeTasks' = [storeTasks EXCEPT ![i].img = IF ok THEN "ok" ELSE "failed"]
    /\ store' = IF ok THEN [store EXCEPT !.image = storeTasks[i].art] ELSE store
    /\ UNCHANGED <<auxVars, validation, html, mode, cachedResult, genState, pc, cancelled, trace, describeOut, imagePrompt,
                   genPrompt, upCount, lastPartialImage, yielded,
                   finalImageSent, response>>

\* the put of the metadata object completes
Store_PutMeta(i, ok) ==
    /\ i \in DOMAIN storeTasks
    /\ storeTasks[i].meta = "pending"
    /\ storeTasks' = [storeTasks EXCEPT ![i].meta = IF ok THEN "ok" ELSE "failed"]
    /\ store' = IF ok THEN [store EXCEPT !.meta = storeTasks[i].art] ELSE store
    /\ UNCHANGED <<auxVars, validation, html, mode, cachedResult, genState, pc, cancelled, trace, describeOut, imagePrompt,
                   genPrompt, upCount, lastPartialImage, yielded,
                   finalImageSent, response>>

\* ------------------------------------------------- POST /api/generate-image
\* the client disconnects: ReadableStream cancel()
Cancel ==
    /\ mode = "POST"
    /\ pc \in {"cache", "validate", "fetch", "describe", "stream"}
    /\ ~cancelled
    /\ cancelled' = TRUE
    /\ trace' = Append(trace, CancelMark)
    /\ UNCHANGED <<auxVars, validation, html, mode, cachedResult, genState, pc, store, storeTasks, describeOut, imagePrompt,
                   genPrompt, upCount, lastPartialImage, yielded,
                   finalImageSent, response>>

\* start(): up to the await of getCachedImage
POST_Start ==
    /\ mode = "POST"
    /\ pc = "init"
    /\ IF cancelled
       THEN /\ pc' = "done"
            /\ trace' = trace
       ELSE /\ pc' = "cache"
            /\ trace' = trace \o <<Ev("checking_cache", Absent, "", ""),
                                   Call("getCachedImage", Absent)>>
    /\ UNCHANGED <<auxVars, validation, html, mode, cachedResult, genState, cancelled, store, storeTasks, describeOut, imagePrompt,
                   genPrompt, upCount, lastPartialImage, yielded,
                   finalImageSent, response>>

\* getCachedImage has resolved: up to the await of validateURL
\* the streaming handler from the point where getCachedImage has settled
\* with result (Threw: it rejected) up to the await of validateURL
AfterCacheLookup(result) ==
    /\ cachedResult' = IF result = Threw THEN Absent ELSE result
    /\ IF result = Threw
       THEN /\ pc' = "done"
            /\ trace' = trace \o CatchError("cache")
       ELSE IF result # Absent /\ ~cancelled
       THEN /\ pc' = "done"
            /\ trace' = trace \o <<Ev("completed", result, PNG, "cached"),
                                   Done, Close>>
       ELSE /\ pc' = "validate"
            /\ trace' = trace \o <<Ev("validating", Absent, "", ""),
                                   Call("validateURL", Absent)>>

POST_CacheChecked(readsOk) ==
    /\ mode = "POST"
    /\ pc = "cache"
    /\ AfterCacheLookup(GetCachedImage(store, readsOk))
    /\ UNCHANGED <<auxVars, validation, html, mode, genState, cancelled, store, storeTasks, describeOut, imagePrompt,
                   genPrompt, upCount, lastPartialImage, yielded,
                   finalImageSent, response>>

\* validateURL has resolved: up to the await of fetchHTML
POST_Validated(v) ==
    /\ mode = "POST"
    /\ pc = "validate"
    /\ validation' = v
    /\ IF cancelled
       THEN /\ pc' = "done"
            /\ trace' = Append(trace, Close)
       ELSE IF ~v.isValid
       THEN /\ pc' = "done"
            /\ trace' = trace \o
                 <<Ev("error", Absent, "", ValidationFailedMessage(v)), Close>>
       ELSE /\ pc' = "fetch"
            /\ trace' = trace \o
                 <<Ev("validated", Absent, "", ValidatedMessage(v)),
                   Ev("fetching", Absent, "", ""),
                   Call("fetchHTML", Absent)>>
    /\ UNCHANGED <<auxVars, html, mode, cachedResult, genState, cancelled, store, storeTasks, describeOut, imagePrompt,
                   genPrompt, upCount, lastPartialImage, yielded,
                   finalImageSent, response>>

\* fetchHTML has returned or thrown: up to the await of
\* generateImagePromptFromHTML
POST_Fetched(ok) ==
    /\ mode = "POST"
    /\ pc = "fetch"
    /\ html' = IF ok THEN "html" ELSE "threw"
    /\ IF ~ok
       THEN /\ pc' = "done"
            /\ trace' = trace \o CatchError("fetch")
       ELSE IF cancelled
       THEN /\ pc' = "done"
            /\ trace' = Append(trace, Close)
       ELSE /\ pc' = "describe"
            /\ trace' = trace \o <<Ev("fetched", Absent, "", ""),
                                   Ev("describing", Absent, "", ""),
                                   Call("generateImagePromptFromHTML", Absent)>>
    /\ UNCHANGED <<auxVars, validation, mode, cachedResult, genState, cancelled, store, storeTasks, describeOut, imagePrompt,
                   genPrompt, upCount, lastPartialImage, yielded,
                   finalImageSent, response>>

\* generateImagePromptFromHTML has resolved: up to the first next() of the
\* provider's stream generator
POST_Described(out) ==
    /\ mode = "POST"
    /\ pc = "describe"
    /\ describeOut' = out
    /\ imagePrompt' = GenerateImagePromptFromHTML(out)
    /\ IF cancelled
       THEN /\ pc' = "done"
            /\ trace' = Append(trace, Close)
            /\ genPrompt' = genPrompt
            /\ genState' = genState
       ELSE /\ pc' = "stream"
            /\ trace' = trace \o <<Ev("described", Absent, "", ""),
                                   Ev("generating", Absent, "", ""),
                                   Call("generateStream", Absent)>>
            /\ genPrompt' = validatePrompt(PromptPrefix \o imagePrompt')
            /\ genState' = "running"
    /\ UNCHANGED <<auxVars, validation, html, mode, cachedResult, cancelled, store, storeTasks, upCount,
                   lastPartialImage, yielded, finalImageSent, response>>

\* the code after the loop without its controller.close()
PostLoop_LeavesOpen(tr, finalSent) ==
    (IF ~finalSent THEN Append(tr, Ev("completed", Absent, "", "fallback")) ELSE tr)
        \o <<Done>>

\* the code after the for-await loop of the route (route.ts 480-497)
PostLoop(tr, finalSent) ==
    (IF ~finalSent THEN Append(tr, Ev("completed", Absent, "", "fallback")) ELSE tr)
        \o <<Done, Close>>

\* the body of the route's for-await loop for one yielded item: the trace
\* after it, and whether the handler returned (cancelled)
LoopBody(tr, item, isCancelled) ==
    IF isCancelled THEN [trace |-> Append(tr, Close), returned |-> TRUE, stored |-> FALSE]
    ELSE IF item.isPartial
    THEN [trace |-> Append(tr, Ev("partial_image", item.base64, item.mediaType, "")),
          returned |-> FALSE, stored |-> FALSE]
    ELSE [trace |-> tr \o <<Call("cacheImage", item.base64),
                            Ev("completed", item.base64, item.mediaType, "generated")>>,
          returned |-> FALSE, stored |-> TRUE]

\* the OpenAI stream delivers an event: generateStream handles it and, when
\* it yields, the route's loop body runs; when generateStream returns, the
\* code after the loop runs
POST_StreamEvent(ev) ==
    /\ mode = "POST"
    /\ pc = "stream"
    /\ upCount < MaxStream
    /\ upCount' = upCount + 1
    /\ LET r == GenStep(ev, lastPartialImage, upCount) IN
       /\ lastPartialImage' = r.lastPartial
       /\ IF r.throws
          THEN /\ pc' = "done"
               /\ genState' = "threw"
               /\ trace' = trace \o CatchError("stream")
               /\ UNCHANGED <<yielded, finalImageSent, storeTasks>>
          ELSE IF r.yields
          THEN LET b == LoopBody(trace, r.item, cancelled)
                   sent == finalImageSent \/ b.stored
               IN /\ yielded' = Append(yielded, r.item)
                  /\ finalImageSent' = sent
                  /\ storeTasks' = IF b.stored
                                   THEN Append(storeTasks, NewStoreTask(r.item.base64))
                                   ELSE storeTasks
                  /\ IF b.returned
                     THEN /\ pc' = "done"
                          /\ genState' = "closed"
                          /\ trace' = b.trace
                     ELSE IF r.returns
                     THEN /\ pc' = "done"
                          /\ genState' = "returned"
                          /\ trace' = PostLoop(b.trace, sent)
                     ELSE /\ pc' = "stream"
                          /\ genState' = genState
                          /\ trace' = b.trace
          ELSE /\ UNCHANGED <<yielded, finalImageSent, storeTasks>>
               /\ IF r.returns
                  THEN /\ pc' = "done"
                       /\ genState' = "returned"
                       /\ trace' = PostLoop(trace, finalImageSent)
                  ELSE /\ pc' = "stream"
                       /\ genState' = genState
                       /\ trace' = trace
    /\ DropPromptLocals
    /\ UNCHANGED <<auxVars, validation, html, mode, cachedResult, cancelled, store, response>>

\* the OpenAI stream ends without a completed event: generateStream falls
\* out of its loop and returns
POST_StreamEnd ==
    /\ mode = "POST"
    /\ pc = "stream"
    /\ pc' = "done"
    /\ genState' = "returned"
    /\ trace' = PostLoop(trace, finalImageSent)
    /\ DropPromptLocals
    /\ UNCHANGED <<auxVars, validation, html, mode, cachedResult, cancelled, store, storeTasks, upCount,
                   lastPartialImage, yielded, finalImageSent, response>>

\* the images.generate call or the iteration of its stream throws:
\* generateStream rethrows, the route's catch block runs
POST_StreamThrow ==
    /\ mode = "POST"
    /\ pc = "stream"
    /\ pc' = "done"
    /\ genState' = "threw"
    /\ trace' = trace \o CatchError("stream")
    /\ DropPromptLocals
    /\ UNCHANGED <<auxVars, validation, html, mode, cachedResult, cancelled, store, storeTasks, upCount,
                   lastPartialImage, yielded, finalImageSent, response>>

\* -------------------------------------------------- PUT /api/generate-image
Respond(status, image, cached) ==
    [status |-> status, image |-> image, cached |-> cached]

PUT_Start ==
    /\ mode = "PUT"
    /\ pc = "init"
    /\ pc' = "cache"
    /\ trace' = Append(trace, Call("getCachedImage", Absent))
    /\ UNCHANGED <<auxVars, validation, html, mode, cachedResult, genState, cancelled, store, storeTasks, describeOut, imagePrompt,
                   genPrompt, upCount, lastPartialImage, yielded,
                   finalImageSent, response>>

PUT_CacheChecked(readsOk) ==
    /\ mode = "PUT"
    /\ pc = "cache"
    /\ cachedResult' = GetCachedImage(store, readsOk)
    /\ IF cachedResult' # Absent
       THEN /\ pc' = "done"
            /\ response' = Respond(200, cachedResult', TRUE)
            /\ trace' = trace
       ELSE /\ pc' = "validate"
            /\ response' = response
            /\ trace' = Append(trace, Call("validateURL", Absent))
    /\ UNCHANGED <<auxVars, validation, html, mode, genState, cancelled, store, storeTasks, describeOut, imagePrompt,
                   genPrompt, upCount, lastPartialImage, yielded, finalImageSent>>

PUT_Validated(v) ==
    /\ mode = "PUT"
    /\ pc = "validate"
    /\ validation' = v
    /\ IF ~v.isValid
       THEN /\ pc' = "done"
            /\ response' = Respond(400, Absent, FALSE)
            /\ trace' = trace
       ELSE /\ pc' = "fetch"
            /\ response' = response
            /\ trace' = Append(trace, Call("fetchHTML", Absent))
    /\ UNCHANGED <<auxVars, html, mode, cachedResult, genState, cancelled, store, storeTasks, describeOut, imagePrompt,
                   genPrompt, upCount, lastPartialImage, yielded, finalImageSent>>

PUT_Fetched(ok) ==
    /\ mode = "PUT"
    /\ pc = "fetch"
    /\ html' = IF ok THEN "html" ELSE "threw"
    /\ IF ~ok
       THEN /\ pc' = "done"
            /\ response' = Respond(500, Absent, FALSE)
            /\ trace' = trace
       ELSE /\ pc' = "describe"
            /\ response' = response
            /\ trace' = Append(trace, Call("generateImagePromptFromHTML", Absent))
    /\ UNCHANGED <<auxVars, validation, mode, cachedResult, genState, cancelled, store, storeTasks, describeOut, imagePrompt,
                   genPrompt, upCount, lastPartialImage, yielded, finalImageSent>>

PUT_Described(out) ==
    /\ mode = "PUT"
    /\ pc = "describe"
    /\ describeOut' = out
    /\ imagePrompt' = GenerateImagePromptFromHTML(out)
    /\ genPrompt' = validatePrompt(PromptPrefix \o imagePrompt')
    /\ pc' = "generate"
    /\ trace' = Append(trace, Call("generate", Absent))
    /\ UNCHANGED <<auxVars, validation, html, mode, cachedResult, genState, cancelled, store, storeTasks, upCount,
                   lastPartialImage, yielded, finalImageSent, response>>

\* provider.generate has returned or thrown: cacheImage is started and the
\* response returned
PUT_Generated(r) ==
    /\ mode = "PUT"
    /\ pc = "generate"
    /\ pc' = "done"
    /\ LET base64 == Generate(r) IN
       IF base64 = Absent
       THEN /\ response' = Respond(500, Absent, FALSE)
            /\ UNCHANGED <<trace, storeTasks>>
       ELSE /\ trace' = Append(trace, Call("cacheImage", base64))
            /\ storeTasks' = Append(storeTasks, NewStoreTask(base64))
            /\ response' = Respond(200, base64, FALSE)
    /\ DropPromptLocals
    /\ UNCHANGED <<auxVars, validation, html, mode, cachedResult, genState, cancelled, store, upCount, lastPartialImage, yielded,
                   finalImageSent>>

\* ------------------------------------------------------------------- Next
Next ==
    \/ Cancel
    \/ POST_Start
    \/ \E readsOk \in BOOLEAN : POST_CacheChecked(readsOk)
    \/ \E v \in ValidationResults : POST_Validated(v)
    \/ \E ok \in BOOLEAN : POST_Fetched(ok)
    \/ \E out \in DescribeOutcomes : POST_Described(out)
    \/ \E ev \in UpstreamEvents : POST_StreamEvent(ev)
    \/ POST_StreamEnd
    \/ POST_StreamThrow
    \/ PUT_Start
    \/ \E readsOk \in BOOLEAN : PUT_CacheChecked(readsOk)
    \/ \E v \in ValidationResults : PUT_Validated(v)
    \/ \E ok \in BOOLEAN : PUT_Fetched(ok)
    \/ \E out \in DescribeOutcomes : PUT_Described(out)
    \/ \E r \in GenerateResponses : PUT_Generated(r)
    \/ \E i \in 1..MaxStream, ok \in BOOLEAN : Store_PutImage(i, ok)
    \/ \E i \in 1..MaxStream, ok \in BOOLEAN : Store_PutMeta(i, ok)

Spec == Init /\ [][Next]_vars

\* --------------------------------------------------------- views of trace
Events == SelectSeq(trace, LAMBDA e : e.t = "event")
Calls == SelectSeq(trace, LAMBDA e : e.t = "call")

IsEvent(e, step) == e.t = "event" /\ e.name = step
IsCall(e, fn) == e.t = "call" /\ e.name = fn

Emitted(step) == \E i \in DOMAIN trace : IsEvent(trace[i], step)
Called(fn) == \E i \in DOMAIN trace : IsCall(trace[i], fn)

\* position of a stage in the order of the spec; 0: not one of its stages
StageRank(step) ==
    CASE step = "checking_cache" -> 1
      [] step = "validating" -> 2
      [] step = "fetching" -> 3
      [] step = "describing" -> 4
      [] step = "generating" -> 5
      [] step = "partial_image" -> 6
      [] step = "completed" -> 7
      [] OTHER -> 0

ProviderCalled == Called("generateStream") \/ Called("generate")

\* ================================================================= claims

\* C1: in the streaming pipeline the stages checking_cache, validating,
\* fetching, describing, generating, partial_image, completed occur in the
\* event sequence only in that order (partial_image may repeat), and an
\* error event can only end the sequence.  Stated as the claim has it; the
\* code violates it (a final item can be followed by further items).
C1_StageOrder ==
    mode = "POST" =>
        \A i, j \in DOMAIN Events :
            i < j =>
                /\ Events[i].name # "error"
                /\ (StageRank(Events[i].name) > 0 /\ StageRank(Events[j].name) > 0)
                      => \/ StageRank(Events[i].name) < StageRank(Events[j].name)
                         \/ /\ Events[i].name = "partial_image"
                            /\ Events[j].name = "partial_image"

\* C2: once a completed event has been emitted, no partial_image, no second
\* completed and no error event follows it.  Stated as the claim has it; the
\* code violates it.
C2_CompletedIsLast ==
    mode = "POST" =>
        \A i, j \in DOMAIN Events :
            (i < j /\ Events[i].name = "completed")
                => Events[j].name \notin {"partial_image", "completed", "error"}

\* C3: when the cache lookup returns a hit, the streaming pipeline emits
\* exactly checking_cache and completed (with the cached artifact) and then
\* ends the stream, and neither handler calls validateURL, fetchHTML,
\* generateImagePromptFromHTML or a provider.  Stated as the claim has it;
\* the code violates it when the client cancels during the lookup.
C3_CacheShortCircuit ==
    cachedResult # Absent =>
        /\ mode = "POST" =>
              Events = <<Ev("checking_cache", Absent, "", ""),
                         Ev("completed", cachedResult, PNG, "cached"), Done>>
        /\ ~Called("validateURL")
        /\ ~Called("fetchHTML")
        /\ ~Called("generateImagePromptFromHTML")
        /\ ~ProviderCalled

\* C4: after the client's cancel has set the flag, nothing more is enqueued
\* on the stream.  Stated as the claim has it; the code violates it.
C4_CancelSilence ==
    \A i, j \in DOMAIN trace :
        (i < j /\ trace[i].t = "cancel") => trace[j].t # "event"

\* C5: after the cancel flag has been set, the handler starts no further
\* collaborator call and no cache write.  Stated as the claim has it; the
\* code violates it for a cancel that arrives during the cache lookup.
C5_NoCallAfterCancel ==
    \A i, j \in DOMAIN trace :
        (i < j /\ trace[i].t = "cancel") => trace[j].t # "call"

\* the provider's stream has ended (returned, not thrown) in a request the
\* client did not cancel
StreamEndedNormally == mode = "POST" /\ genState = "returned" /\ ~cancelled

AllPartial(items) == \A i \in DOMAIN items : items[i].isPartial

\* C6: when the provider's stream yields one or more partial items and ends
\* without a final item, a completed event carries the artifact of the last
\* partial item.  Stated as the claim has it; the code violates it.
C6_PartialPromotion ==
    (StreamEndedNormally /\ yielded # <<>> /\ AllPartial(yielded)) =>
        \E i \in DOMAIN Events :
            /\ Events[i].name = "completed"
            /\ Events[i].image = yielded[Len(yielded)].base64
            /\ Events[i].mediaType = yielded[Len(yielded)].mediaType

\* C7: when the provider's stream ends without having yielded any item, the
\* stream of events ends with an error event and has no completed event.
\* Stated as the claim has it; the code violates it.
C7_EmptyStreamIsError ==
    (StreamEndedNormally /\ yielded = <<>>) =>
        /\ Emitted("error")
        /\ ~Emitted("completed")

\* C8: every completed event that comes from generation, and every success
\* response of the single-shot handler that is not a cache hit, is preceded
\* by the start of a cacheImage call for the artifact it carries.  Stated as
\* the claim has it; the code violates it for the completed event it emits
\* when the stream ended without a final item.
C8_StoreBeforeCompleted ==
    /\ \A j \in DOMAIN trace :
          (IsEvent(trace[j], "completed") /\ trace[j].msg # "cached") =>
              \E i \in 1..(j - 1) :
                  IsCall(trace[i], "cacheImage") /\ trace[i].image = trace[j].image
    /\ (mode = "PUT" /\ response.status = 200 /\ ~response.cached) =>
          \E i \in DOMAIN trace :
              IsCall(trace[i], "cacheImage") /\ trace[i].image = response.image

\* the cacheImage calls the handler started, in order
StoreCalls == SelectSeq(trace, LAMBDA e : IsCall(e, "cacheImage"))

\* C9: a cache write that fails never fails the response.  The promise of
\* cacheImage is never rejected, whichever of its two puts fails; and the
\* request that started a store whose put failed has its outcome all the
\* same: in streaming mode the completed event carrying the stored artifact
\* directly follows the start of the store, in single-shot mode the response
\* is the success response with that artifact.
C9_CacheWriteNeverFails ==
    /\ storeTasks # <<>> \/ StoreCalls # <<>> =>
          LET calls == StoreCalls IN
          /\ Len(calls) = Len(storeTasks)
          /\ \A k \in DOMAIN storeTasks : calls[k].image = storeTasks[k].art
    /\ \A k \in DOMAIN storeTasks :
          /\ cacheImage(storeTasks[k]) # "rejected"
          /\ PutsSettled(storeTasks[k]) = "rejected" =>
                /\ cacheImage(storeTasks[k]) = "resolved"
                /\ mode = "PUT" =>
                      response = Respond(200, storeTasks[k].art, FALSE)
    /\ mode = "POST" =>
          \A i \in DOMAIN trace :
              IsCall(trace[i], "cacheImage") =>
                  /\ i < Len(trace)
                  /\ trace[i + 1] = Ev("completed", trace[i].image, PNG, "generated")

\* C9 witness: a streaming request has finished with a completed event while
\* the image put of its store failed and the metadata put went through
C9_Witness ==
    /\ mode = "POST"
    /\ pc = "done"
    /\ Emitted("completed")
    /\ \E k \in DOMAIN storeTasks :
          storeTasks[k].img = "failed" /\ storeTasks[k].meta = "ok"

\* the describe model call failed or gave an empty or whitespace-only text
DescribeFailedOrEmpty ==
    \/ describeOut.kind = "threw"
    \/ describeOut.kind = "text" /\ Len(Trim(describeOut.text)) = 0

ErrorCount == Len(SelectSeq(trace, LAMBDA e : IsEvent(e, "error")))

\* position in trace of the first call of fn (0: none)
CallIndex(fn) ==
    IF Called(fn)
    THEN CHOOSE i \in DOMAIN trace :
            /\ IsCall(trace[i], fn)
            /\ \A j \in 1..(i - 1) : ~IsCall(trace[j], fn)
    ELSE 0

\* the client had cancelled when the call of fn resolved: the cancel is in
\* trace before whatever the handler did next
CancelledDuring(fn) ==
    \E j \in 1..(CallIndex(fn) + 1) : trace[j].t = "cancel"

\* C11: when validateURL rejects the url (isValid false), the streaming
\* handler emits exactly one error event, whose text carries the reason of
\* the rejection, and closes the stream; the single-shot handler returns an
\* error response; and neither calls fetchHTML, generateImagePromptFromHTML
\* or a provider, nor starts a cache write.  (A stream the client had
\* cancelled by then is closed without an event.)
C11_ValidationRejection ==
    ~validation.isValid =>
        /\ pc = "done"
        /\ ~Called("fetchHTML")
        /\ ~Called("generateImagePromptFromHTML")
        /\ ~ProviderCalled
        /\ ~Called("cacheImage")
        /\ (mode = "POST" /\ ~cancelled) =>
              /\ ErrorCount = 1
              /\ Len(trace) >= 2
              /\ trace[Len(trace) - 1] =
                    Ev("error", Absent, "",
                       "URL validation failed: " \o validation.reason)
              /\ trace[Len(trace)] = Close
        /\ (mode = "POST" /\ cancelled) =>
              /\ ErrorCount = 0
              /\ trace[Len(trace)] = Close
        /\ mode = "PUT" =>
              /\ response.status = 400
              /\ response.image = Absent

\* C11 witness: a streaming request nobody cancelled has ended on a rejected
\* url
C11_Witness ==
    /\ mode = "POST"
    /\ ~cancelled
    /\ ~validation.isValid
    /\ validation.reason = "URL deemed unsafe for scraping"
    /\ pc = "done"
    /\ Emitted("error")

\* C12: when validateURL accepts the url with category potentially_unsafe,
\* the streaming handler (unless the client had cancelled by then) emits no
\* error for it: it emits the validated event, whose message carries the
\* warning reason, then the fetching event, and calls fetchHTML.
C12_CautionProceeds ==
    (mode = "POST" /\ validation.category = "potentially_unsafe") =>
        LET iv == CallIndex("validateURL") IN
        IF CancelledDuring("validateURL")
        THEN /\ pc = "done"
             /\ ~Emitted("validated")
             /\ ~Called("fetchHTML")
             /\ trace[Len(trace)] = Close
        ELSE /\ Len(trace) >= iv + 3
             /\ trace[iv + 1] =
                   Ev("validated", Absent, "",
                      "URL validated with warning: " \o validation.reason)
             /\ trace[iv + 2] = Ev("fetching", Absent, "", "")
             /\ trace[iv + 3] = Call("fetchHTML", Absent)
             /\ \A i \in 1..(iv + 3) : ~IsEvent(trace[i], "error")
             /\ pc # "validate"

\* C12 witness: a streaming request with a potentially_unsafe url is waiting
\* for fetchHTML
C12_Witness ==
    /\ mode = "POST"
    /\ ~cancelled
    /\ validation.category = "potentially_unsafe"
    /\ pc = "fetch"
    /\ Called("fetchHTML")

\* the stream ends with one error event and the close that follows it;
\* nothing is called and nothing emitted after the error
EndsWithTheOnlyError ==
    /\ pc = "done"
    /\ ErrorCount = 1
    /\ Len(trace) >= 2
    /\ IsEvent(trace[Len(trace) - 1], "error")
    /\ trace[Len(trace)] = Close

\* validateURL rejected the url of a stream nobody had cancelled
ValidationRejected == ~validation.isValid /\ ~cancelled

C14_SentinelAfterTerminal ==
    (mode = "POST" /\ pc = "done" /\ ~cancelled) =>
        /\ Len(trace) >= 3
        /\ trace[Len(trace)] = Close
        /\ trace[Len(trace) - 1] = Done
        /\ \/ IsEvent(trace[Len(trace) - 2], "completed")
           \/ IsEvent(trace[Len(trace) - 2], "error")
        /\ \A i \in 1..(Len(trace) - 2) : trace[i] # Done

\* ============================================================= cache keys
\* generateCacheKey and generateMetadataKey (image-cache.ts 22-58), applied
\* to (url, provider) pairs.  A provider is a record: present or not, and
\* its name.

\* the characters of the urls: a letter, the separator, a character that
\* encodeURIComponent escapes and one that the key's sanitising replaces
UrlChars == {"a", "_", "/", "."}
ProviderChars == {"b", "_"}

RECURSIVE StringsOver(_, _)
StringsOver(chars, n) ==
    IF n = 0 THEN {<<>>}
    ELSE StringsOver(chars, n - 1) \cup
         {Append(x, c) : x \in {y \in StringsOver(chars, n - 1) : Len(y) = n - 1},
                         c \in chars}

\* the handlers reject an empty url before they use the cache
Urls == StringsOver(UrlChars, MaxUrlLen) \ {<<>>}

NoProvider == [present |-> FALSE, name |-> <<>>]
Providers ==
    {NoProvider} \cup {[present |-> TRUE, name |-> <<c>>] : c \in ProviderChars}

\* encodeURIComponent: unreserved characters stay, the others become %XX
EncodeChar(c) ==
    IF c = "/" THEN <<"%", "2", "F">> ELSE <<c>>

RECURSIVE encodeURIComponent(_)
encodeURIComponent(str) ==
    IF str = <<>> THEN <<>>
    ELSE EncodeChar(Head(str)) \o encodeURIComponent(Tail(str))

\* .replace(/[.*+?^${}()|[\]\\]/g, '_')
RegexSpecialChars ==
    {".", "*", "+", "?", "^", "$", "{", "}", "(", ")", "|", "[", "]", "\\"}

ReplaceRegexSpecial(str) ==
    [i \in DOMAIN str |-> IF str[i] \in RegexSpecialChars THEN "_" ELSE str[i]]

\* .substring(0, n)
Substring0(str, n) == IF Len(str) > n THEN SubSeq(str, 1, n) ELSE str

\* provider.replace(/[^a-zA-Z0-9-]/g, '_'), on the characters of ProviderChars
SanitizeProvider(name) ==
    [i \in DOMAIN name |-> IF name[i] \in {"b", "-"} THEN name[i] ELSE "_"]

\* provider ? `${url}_${provider}` : url  (an empty name is falsy)
CacheInput(url, provider) ==
    IF provider.present /\ provider.name # <<>>
    THEN url \o <<"_">> \o provider.name
    ELSE url

\* the first 16 hex digits of the sha256 digest, under the assumption that
\* it does not collide: the digest stands for exactly its input
Sha256Hex16(input) == [sha256 |-> input]

\* `${dir}/${encodedUrl}${providerSegment}_${hash}${ext}`.  The hash and the
\* extension take the last 16 + 4 characters of the key, so two keys are
\* equal exactly when dir, the part before the last '_', and the hash are
\* equal: the key is kept as these parts.
KeyFor(dir, ext, url, provider) ==
    LET encodedUrl ==
            Substring0(ReplaceRegexSpecial(encodeURIComponent(url)),
                       encodedUrlLimit)
        providerSegment ==
            IF provider.present /\ provider.name # <<>>
            THEN <<"_">> \o SanitizeProvider(provider.name)
            ELSE <<>>
    IN [dir |-> dir, name |-> encodedUrl \o providerSegment,
        hash |-> Sha256Hex16(CacheInput(url, provider)), ext |-> ext]

generateCacheKey(url, provider) == KeyFor("image-cache/", ".png", url, provider)

generateMetadataKey(url, provider) ==
    KeyFor("image-metadata/", ".json", url, provider)

NoKey == [dir |-> "", name |-> <<>>, hash |-> Sha256Hex16(<<>>), ext |-> ""]

\* the request handlers are not running
PipeIdle ==
    /\ mode = "none"
    /\ pc = "idle"
    /\ cancelled = FALSE
    /\ trace = <<>>
    /\ store = [image |-> Absent, meta |-> Absent]
    /\ storeTasks = <<>>
    /\ cachedResult = Absent
    /\ genState = "idle"
    /\ describeOut = NoDescribe
    /\ imagePrompt = <<>>
    /\ genPrompt = <<>>
    /\ upCount = 0
    /\ lastPartialImage = 0
    /\ yielded = <<>>
    /\ finalImageSent = FALSE
    /\ response = [status |-> 0, image |-> Absent, cached |-> FALSE]
    /\ validation = NoValidation
    /\ html = "unset"

KeyInit ==
    /\ PipeIdle
    /\ UnitsIdle
    /\ lookup = NoLookup
    /\ chain = NoChain
    /\ keys \in {[url |-> u, provider |-> p, calls |-> 0,
                  cacheKey |-> NoKey, metadataKey |-> NoKey] :
                     u \in Urls, p \in Providers}

\* a caller derives the two keys of its (url, provider) pair
GenerateKeys ==
    /\ keys.calls < 2
    /\ keys' = [keys EXCEPT
                  !.calls = @ + 1,
                  !.cacheKey = generateCacheKey(keys.url, keys.provider),
                  !.metadataKey = generateMetadataKey(keys.url, keys.provider)]
    /\ UNCHANGED <<pipeVars, lookup, chain, unitVars>>

KeyNext == GenerateKeys

KeySpec == KeyInit /\ [][KeyNext]_vars

\* C15: the cache key and the metadata key of a pair equal those of another
\* pair exactly when the two (url, provider) pairs are equal, and the keys
\* of a pair are the same on every call.  Stated as the claim has it (the
\* digest is injective in the model); the code violates it: the pair
\* (url "a_b", no provider) and the pair (url "a", provider "b") get the
\* same keys.
C15_KeyInjective ==
    keys.calls > 0 =>
        /\ keys.cacheKey = generateCacheKey(keys.url, keys.provider)
        /\ keys.metadataKey = generateMetadataKey(keys.url, keys.provider)
        /\ \A u \in Urls, p \in Providers :
              /\ generateCacheKey(u, p) = keys.cacheKey
                    <=> (u = keys.url /\ p = keys.provider)
              /\ generateMetadataKey(u, p) = keys.metadataKey
                    <=> (u = keys.url /\ p = keys.provider)

\* =========================================================== cache lookup
\* getCachedImage (image-cache.ts 63-117) step by step, called by the
\* streaming handler, while cacheImage calls of other requests for the same
\* key write to the blob store and objects can disappear from it.  The
\* artifact of writer k is k.  A put that fails leaves the store as a put
\* that has not happened yet does, so the writers' puts succeed here.

\* what a fetch of a blob url gave
NoBlob == [state |-> "pending", data |-> Absent]

\* the lookup at its start: both checkBlobExists calls are pending.
\* sawImage, sawMeta: what the store held when the check looked (history);
\* failure: the step that failed (history); gone: an object that a check
\* had found was missing at a later read (history)
NewLookup ==
    [pc |-> "exists", imageExists |-> "pending", metadataExists |-> "pending",
     sawImage |-> Absent, sawMeta |-> Absent,
     imageBlob |-> NoBlob, metadataBlob |-> NoBlob,
     result |-> Absent, failure |-> "", gone |-> FALSE]

\* a catch block that rethrows
getCachedImage_catch_Rethrows(error) == Threw

\* the catch block of getCachedImage: it logs and returns null
getCachedImage_catch(error) == Absent

\* getCachedImage ends in its catch block
LookupFailed(lk, step, isGone) ==
    [lk EXCEPT !.pc = "done", !.result = getCachedImage_catch(step),
               !.failure = step, !.gone = isGone]

\* checkBlobExists: head(key) succeeded
checkBlobExists(object, netOk) ==
    IF netOk /\ object # Absent THEN "yes" ELSE "no"

\* imageExists || metadataExists in its place
EitherExists(imageExists, metadataExists) ==
    imageExists = "yes" \/ metadataExists = "yes"

\* !imageExists || !metadataExists
BothExist(imageExists, metadataExists) ==
    imageExists = "yes" /\ metadataExists = "yes"

\* the code that follows await Promise.all([checkBlobExists, checkBlobExists]):
\* it runs once both checks have resolved
AfterExistenceChecks(lk) ==
    IF lk.imageExists = "pending" \/ lk.metadataExists = "pending" THEN lk
    ELSE IF ~BothExist(lk.imageExists, lk.metadataExists)
    THEN [lk EXCEPT !.pc = "done", !.result = Absent]
    ELSE [lk EXCEPT !.pc = "headImage"]

\* the code that follows await Promise.all([fetch, fetch]): the promise
\* rejects as soon as one fetch throws, else it waits for both; then the ok
\* flags are tested, the bodies read and the metadata parsed
AfterFetches(lk, parseOk) ==
    IF lk.imageBlob.state = "threw" \/ lk.metadataBlob.state = "threw"
    THEN LookupFailed(lk, "fetch threw", lk.gone)
    ELSE IF lk.imageBlob.state = "pending" \/ lk.metadataBlob.state = "pending"
    THEN lk
    ELSE IF lk.imageBlob.state = "notok" \/ lk.metadataBlob.state = "notok"
    THEN [lk EXCEPT !.pc = "done", !.result = Absent, !.failure = "fetch not ok"]
    ELSE IF ~parseOk THEN LookupFailed(lk, "parse", lk.gone)
    ELSE [lk EXCEPT !.pc = "done", !.result = lk.imageBlob.data]

\* what a fetch of an object's url can give: a missing object is never ok
FetchOutcomes(object) ==
    IF object = Absent THEN {"notok", "threw"} ELSE {"ok", "notok", "threw"}

LK_CheckImage(netOk) ==
    /\ pc = "cache"
    /\ lookup.pc = "exists"
    /\ lookup.imageExists = "pending"
    /\ lookup' = AfterExistenceChecks(
                    [lookup EXCEPT !.imageExists = checkBlobExists(store.image, netOk),
                                   !.sawImage = store.image])
    /\ UNCHANGED <<pipeVars, keys, chain, unitVars>>

LK_CheckMeta(netOk) ==
    /\ pc = "cache"
    /\ lookup.pc = "exists"
    /\ lookup.metadataExists = "pending"
    /\ lookup' = AfterExistenceChecks(
                    [lookup EXCEPT !.metadataExists = checkBlobExists(store.meta, netOk),
                                   !.sawMeta = store.meta])
    /\ UNCHANGED <<pipeVars, keys, chain, unitVars>>

\* head(imageKey) settles
LK_HeadImage(netOk) ==
    /\ lookup.pc = "headImage"
    /\ lookup' = IF netOk /\ store.image # Absent
                 THEN [lookup EXCEPT !.pc = "headMeta"]
                 ELSE LookupFailed(lookup, "head", store.image = Absent)
    /\ UNCHANGED <<pipeVars, keys, chain, unitVars>>

\* head(metadataKey) settles; the two fetches are started
LK_HeadMeta(netOk) ==
    /\ lookup.pc = "headMeta"
    /\ lookup' = IF netOk /\ store.meta # Absent
                 THEN [lookup EXCEPT !.pc = "fetch"]
                 ELSE LookupFailed(lookup, "head", store.meta = Absent)
    /\ UNCHANGED <<pipeVars, keys, chain, unitVars>>

LK_FetchImage(outcome, parseOk) ==
    /\ lookup.pc = "fetch"
    /\ lookup.imageBlob.state = "pending"
    /\ outcome \in FetchOutcomes(store.image)
    /\ lookup' = AfterFetches(
                    [lookup EXCEPT
                        !.imageBlob = [state |-> outcome,
                                       data |-> IF outcome = "ok" THEN store.image
                                                ELSE Absent],
                        !.gone = @ \/ store.image = Absent],
                    parseOk)
    /\ UNCHANGED <<pipeVars, keys, chain, unitVars>>

LK_FetchMeta(outcome, parseOk) ==
    /\ lookup.pc = "fetch"
    /\ lookup.metadataBlob.state = "pending"
    /\ outcome \in FetchOutcomes(store.meta)
    /\ lookup' = AfterFetches(
                    [lookup EXCEPT
                        !.metadataBlob = [state |-> outcome,
                                          data |-> IF outcome = "ok" THEN store.meta
                                                   ELSE Absent],
                        !.gone = @ \/ store.meta = Absent],
                    parseOk)
    /\ UNCHANGED <<pipeVars, keys, chain, unitVars>>

\* getCachedImage has settled: the handler goes on
LK_Resume ==
    /\ mode = "POST"
    /\ pc = "cache"
    /\ lookup.pc = "done"
    /\ AfterCacheLookup(lookup.result)
    /\ UNCHANGED <<auxVars, validation, html, mode, genState, cancelled, store,
                   storeTasks, describeOut, imagePrompt, genPrompt, upCount,
                   lastPartialImage, yielded, finalImageSent, response>>

\* an object of the entry disappears from the blob store
Blob_Disappears(object) ==
    /\ store[object] # Absent
    /\ store' = [store EXCEPT ![object] = Absent]
    /\ UNCHANGED <<auxVars, validation, html, mode, pc, cancelled, trace,
                   cachedResult, storeTasks, describeOut, imagePrompt,
                   genPrompt, genState, upCount, lastPartialImage, yielded,
                   finalImageSent, response>>

CacheInit ==
    /\ mode = "POST"
    /\ pc = "init"
    /\ cancelled = FALSE
    /\ trace = <<>>
    /\ store \in InitialStores
    /\ storeTasks = [k \in 1..MaxWriters |-> NewStoreTask(k)]
    /\ cachedResult = Absent
    /\ genState = "idle"
    /\ describeOut = NoDescribe
    /\ imagePrompt = <<>>
    /\ genPrompt = <<>>
    /\ upCount = 0
    /\ lastPartialImage = 0
    /\ yielded = <<>>
    /\ finalImageSent = FALSE
    /\ response = [status |-> 0, image |-> Absent, cached |-> FALSE]
    /\ validation = NoValidation
    /\ html = "unset"
    /\ keys = NoKeys
    /\ chain = NoChain
    /\ lookup = NewLookup
    /\ UnitsIdle

CacheNext ==
    \/ POST_Start
    \/ \E netOk \in BOOLEAN : LK_CheckImage(netOk)
    \/ \E netOk \in BOOLEAN : LK_CheckMeta(netOk)
    \/ \E netOk \in BOOLEAN : LK_HeadImage(netOk)
    \/ \E netOk \in BOOLEAN : LK_HeadMeta(netOk)
    \/ \E outcome \in {"ok", "notok", "threw"}, parseOk \in BOOLEAN :
          LK_FetchImage(outcome, parseOk)
    \/ \E outcome \in {"ok", "notok", "threw"}, parseOk \in BOOLEAN :
          LK_FetchMeta(outcome, parseOk)
    \/ LK_Resume
    \/ \E i \in 1..MaxWriters : Store_PutImage(i, TRUE)
    \/ \E i \in 1..MaxWriters : Store_PutMeta(i, TRUE)
    \/ \E object \in {"image", "meta"} : Blob_Disappears(object)

CacheSpec == CacheInit /\ [][CacheNext]_vars

\* the lookup has taken its hit-or-miss decision
LookupDecided == lookup.pc # "exists"

\* C16: getCachedImage returns a hit only if both existence checks found
\* their object in the store; when exactly one of the two objects was there
\* it returns a miss (and not through its error path); and the decision is
\* taken only when both checks have resolved.
C16_HitNeedsBoth ==
    /\ LookupDecided =>
          /\ lookup.imageExists # "pending"
          /\ lookup.metadataExists # "pending"
    /\ lookup.pc \in {"headImage", "headMeta", "fetch"} =>
          /\ lookup.imageExists = "yes" /\ lookup.sawImage # Absent
          /\ lookup.metadataExists = "yes" /\ lookup.sawMeta # Absent
    /\ (lookup.pc = "done" /\ lookup.result # Absent) =>
          /\ lookup.imageExists = "yes" /\ lookup.sawImage # Absent
          /\ lookup.metadataExists = "yes" /\ lookup.sawMeta # Absent
    /\ (LookupDecided /\ (lookup.sawImage = Absent) # (lookup.sawMeta = Absent)) =>
          /\ lookup.pc = "done"
          /\ lookup.result = Absent
          /\ lookup.failure = ""
    /\ cachedResult # Absent =>
          lookup.sawImage # Absent /\ lookup.sawMeta # Absent

\* C16 witness: the metadata check resolved first and found its object, the
\* image check found nothing, and the lookup returned a miss
C16_Witness ==
    /\ lookup.pc = "done"
    /\ lookup.sawMeta # Absent
    /\ lookup.metadataExists = "yes"
    /\ lookup.sawImage = Absent
    /\ lookup.imageExists = "no"
    /\ lookup.result = Absent

\* the handler went on as it does on a miss
ProceededAsOnMiss ==
    /\ pc = "validate"
    /\ cachedResult = Absent
    /\ trace = <<Ev("checking_cache", Absent, "", ""),
                 Call("getCachedImage", Absent),
                 Ev("validating", Absent, "", ""),
                 Call("validateURL", Absent)>>

\* C17: a failure inside getCachedImage (a head request that throws, a
\* content fetch that throws or is not ok, metadata that does not parse, an
\* object that is gone at the read after its existence check) makes it
\* return a miss and never reject; the handler then goes on to validating
\* exactly as on a miss, without an error event.
C17_LookupAdvisory ==
    /\ lookup.result # Threw
    /\ (lookup.failure # "" \/ lookup.gone) =>
          LookupDecided /\ lookup.result = Absent
    /\ (lookup.pc = "done" /\ lookup.result = Absent) =>
          \/ pc = "cache" /\ ErrorCount = 0
          \/ ProceededAsOnMiss
    /\ (lookup.pc = "done" /\ lookup.failure # "") => pc \in {"cache", "validate"}

\* C17 witness: both checks found their object, the image object was gone
\* at the content fetch, and the handler went on to validating
C17_Witness ==
    /\ lookup.imageExists = "yes"
    /\ lookup.metadataExists = "yes"
    /\ lookup.gone
    /\ lookup.imageBlob.state = "notok"
    /\ lookup.failure = "fetch not ok"
    /\ ProceededAsOnMiss

\* C18: once two concurrent cacheImage calls for the same key have finished
\* their four puts, the entry in the store (nothing having disappeared) is
\* the image and the metadata of one and the same call.  Stated as the claim
\* has it; the code violates it: the puts are independent requests, and with
\* the order image 1, image 2, metadata 2, metadata 1 the entry holds the
\* image of the second call and the metadata of the first.
C18_LastWriterWins ==
    (/\ \A k \in DOMAIN storeTasks : PutsSettled(storeTasks[k]) = "fulfilled"
     /\ store.image # Absent
     /\ store.meta # Absent) =>
        \E k \in DOMAIN storeTasks :
            store.image = storeTasks[k].art /\ store.meta = storeTasks[k].art

\* ========================================================= fallback chain
\* SmartImageProvider (image-providers): the constructor and generate.
\* Providers are the numbers 1..MaxProviders, the entries of the registry
\* of ImageProviderFactory.

Registry == 1..MaxProviders
NoPreference == 0
UnknownModel == MaxProviders + 1   \* a model name the registry does not hold

RECURSIVE SeqsOver(_, _)
SeqsOver(S, n) ==
    IF n = 0 THEN {<<>>}
    ELSE SeqsOver(S, n - 1) \cup
         {Append(x, e) : x \in {y \in SeqsOver(S, n - 1) : Len(y) = n - 1},
                         e \in S}

\* the chains a SmartImageProvider can be constructed with
Chains == SeqsOver(Registry, MaxChainLen)

Range(f) == {f[i] : i \in DOMAIN f}

\* [preferred, ...providers.filter((p) => p !== preferred)]
PreferredFirst(providers, preferred) ==
    <<preferred>> \o SelectSeq(providers, LAMBDA q : q # preferred)

\* the attempt order of generate
AttemptOrder(fallbackChain, preferredModel) ==
    IF preferredModel = NoPreference THEN fallbackChain
    ELSE PreferredFirst(fallbackChain, preferredModel)

NoResult == [image |-> Absent, usedModel |-> 0]

\* lastError: null, or the error caught from the attempt-th provider call
NoError == [attempt |-> 0, provider |-> 0]
ErrorOf(attempt, provider) == [attempt |-> attempt, provider |-> provider]

\* "Unknown image model", thrown by ImageProviderFactory.getProvider
UnknownModelError == [attempt |-> 0, provider |-> UnknownModel]

\* what one provider.generate call can do: throw, or return an image
AttemptOutcomes == {Threw} \cup Artifacts

ChainInit ==
    /\ PipeIdle
    /\ UnitsIdle
    /\ keys = NoKeys
    /\ lookup = NoLookup
    /\ chain \in {[fallbackChain |-> c, preferredModel |-> m, pc |-> "start",
                   providers |-> <<>>, attempts |-> <<>>, outcomes |-> <<>>,
                   result |-> NoResult, lastError |-> NoError] :
                      c \in Chains,
                      m \in Registry \cup {NoPreference, UnknownModel}}

\* generate up to its first await: the attempt order is fixed and the first
\* provider called; getProvider throws for an unknown preferred model, and
\* with no provider to try the generic error is thrown (lastError null)
SP_Generate ==
    /\ chain.pc = "start"
    /\ IF chain.preferredModel = UnknownModel
       THEN chain' = [chain EXCEPT !.pc = "threw",
                                   !.lastError = UnknownModelError]
       ELSE LET order == AttemptOrder(chain.fallbackChain, chain.preferredModel)
            IN IF order = <<>>
               THEN chain' = [chain EXCEPT !.pc = "threw", !.providers = order]
               ELSE chain' = [chain EXCEPT !.pc = "loop", !.providers = order,
                                           !.attempts = <<order[1]>>]
    /\ UNCHANGED <<pipeVars, keys, lookup, unitVars>>

\* a generate that goes on to the next provider after a success
AfterAttempt_TriesAll(c, outcome) ==
    LET n == Len(c.attempts)
        provider == c.attempts[n]
        outs == Append(c.outcomes, outcome)
        res == IF outcome # Threw
               THEN [image |-> outcome, usedModel |-> provider]
               ELSE c.result
        err == IF outcome = Threw THEN ErrorOf(n, provider) ELSE c.lastError
    IN IF n < Len(c.providers)
       THEN [c EXCEPT !.outcomes = outs, !.result = res, !.lastError = err,
                      !.attempts = Append(@, c.providers[n + 1])]
       ELSE [c EXCEPT !.outcomes = outs, !.result = res, !.lastError = err,
                      !.pc = IF res = NoResult THEN "threw" ELSE "returned"]

\* a generate that keeps the first error it caught
AfterAttempt_KeepsFirstError(c, outcome) ==
    LET n == Len(c.attempts)
        provider == c.attempts[n]
        outs == Append(c.outcomes, outcome)
        err == IF c.lastError = NoError THEN ErrorOf(n, provider)
               ELSE c.lastError
    IN IF outcome # Threw
       THEN [c EXCEPT !.pc = "returned", !.outcomes = outs,
                      !.result = [image |-> outcome, usedModel |-> provider]]
       ELSE IF n < Len(c.providers)
       THEN [c EXCEPT !.outcomes = outs, !.lastError = err,
                      !.attempts = Append(@, c.providers[n + 1])]
       ELSE [c EXCEPT !.pc = "threw", !.outcomes = outs, !.lastError = err]

\* the body of generate's loop from the point where the provider.generate
\* call in flight settles: on success generate returns the result tagged
\* with the provider's name; on failure it records the error and calls the
\* next provider, or throws the last error after the last
AfterAttempt(c, outcome) ==
    LET n == Len(c.attempts)
        provider == c.attempts[n]
        outs == Append(c.outcomes, outcome)
    IN IF outcome # Threw
       THEN [c EXCEPT !.pc = "returned", !.outcomes = outs,
                      !.result = [image |-> outcome, usedModel |-> provider]]
       ELSE IF n < Len(c.providers)
       THEN [c EXCEPT !.outcomes = outs, !.lastError = ErrorOf(n, provider),
                      !.attempts = Append(@, c.providers[n + 1])]
       ELSE [c EXCEPT !.pc = "threw", !.outcomes = outs,
                      !.lastError = ErrorOf(n, provider)]

SP_Settle(outcome) ==
    /\ chain.pc = "loop"
    /\ chain' = AfterAttempt(chain, outcome)
    /\ UNCHANGED <<pipeVars, keys, lookup, unitVars>>

ChainNext ==
    \/ SP_Generate
    \/ \E outcome \in AttemptOutcomes : SP_Settle(outcome)

ChainSpec == ChainInit /\ [][ChainNext]_vars

\* s is a prefix of t
IsPrefix(s, t) == Len(s) <= Len(t) /\ s = SubSeq(t, 1, Len(s))

\* C19: generate attempts the providers in the order of the configured
\* chain; a preferred model that is in the chain comes first and the others
\* keep their relative order; and the providers in the attempt order are
\* exactly those of the chain, none added and none dropped.  Stated as the
\* claim has it; the code violates it: a preferred model that is not in the
\* chain is put in front of it and attempted.
C19_ChainOrdering ==
    (chain.pc # "start" /\ chain.preferredModel # UnknownModel) =>
        /\ IsPrefix(chain.attempts, chain.providers)
        /\ Range(chain.providers) = Range(chain.fallbackChain)
        /\ chain.preferredModel = NoPreference =>
              chain.providers = chain.fallbackChain
        /\ chain.preferredModel \in Range(chain.fallbackChain) =>
              /\ chain.providers[1] = chain.preferredModel
              /\ Tail(chain.providers) =
                    SelectSeq(chain.fallbackChain,
                              LAMBDA q : q # chain.preferredModel)

\* every recorded call of provider q had the outcome for which ok says so
Always(q, ok) ==
    \A k \in DOMAIN chain.outcomes :
        chain.attempts[k] = q => ((chain.outcomes[k] # Threw) <=> ok)

\* C20: generate returns the result of the first provider in attempt order
\* whose call succeeds, with that provider as usedModel, and calls no
\* provider after it; every provider before it was called and failed.  With
\* the chain [1, 2], provider 1 always failing and provider 2 always
\* succeeding, the result is provider 2's; with preference 2, provider 1 is
\* never called.
C20_FirstSuccessWins ==
    /\ Len(chain.outcomes) <= Len(chain.attempts)
    /\ Len(chain.attempts) <= Len(chain.outcomes) + 1
    /\ \A k \in DOMAIN chain.outcomes :
          chain.outcomes[k] # Threw =>
              /\ k = Len(chain.attempts)
              /\ chain.pc = "returned"
              /\ chain.result = [image |-> chain.outcomes[k],
                                 usedModel |-> chain.attempts[k]]
    /\ chain.pc = "returned" =>
          LET n == Len(chain.attempts) IN
          /\ n >= 1
          /\ Len(chain.outcomes) = n
          /\ chain.outcomes[n] # Threw
          /\ \A k \in 1..(n - 1) : chain.outcomes[k] = Threw
          /\ chain.attempts = SubSeq(chain.providers, 1, n)
    /\ (/\ chain.fallbackChain = <<1, 2>>
        /\ chain.pc \in {"returned", "threw"}
        /\ Always(1, FALSE)
        /\ Always(2, TRUE)) =>
          /\ chain.preferredModel = NoPreference =>
                /\ chain.attempts = <<1, 2>>
                /\ chain.pc = "returned"
                /\ chain.result.usedModel = 2
          /\ chain.preferredModel = 2 =>
                /\ chain.attempts = <<2>>
                /\ chain.pc = "returned"
                /\ chain.result.usedModel = 2

\* C20 witness: chain [1, 2] without preference, provider 1 failed and the
\* result is provider 2's
C20_Witness ==
    /\ chain.fallbackChain = <<1, 2>>
    /\ chain.preferredModel = NoPreference
    /\ chain.pc = "returned"
    /\ chain.attempts = <<1, 2>>
    /\ chain.outcomes[1] = Threw
    /\ chain.result.usedModel = 2

\* C21: when every provider called has failed, generate throws the error
\* caught from the last call, not an earlier one and not an aggregate, and
\* returns no result; generate returns only when some call succeeded.
C21_LastErrorThrown ==
    /\ (chain.pc = "threw" /\ chain.attempts # <<>>) =>
          LET n == Len(chain.attempts) IN
          /\ chain.attempts = chain.providers
          /\ Len(chain.outcomes) = n
          /\ \A k \in 1..n : chain.outcomes[k] = Threw
          /\ chain.result = [image |-> Absent, usedModel |-> 0]
          /\ chain.lastError = [attempt |-> n, provider |-> chain.attempts[n]]
    /\ (/\ chain.providers # <<>>
        /\ Len(chain.outcomes) = Len(chain.providers)
        /\ \A k \in DOMAIN chain.outcomes : chain.outcomes[k] = Threw) =>
          chain.pc = "threw"
    /\ chain.pc = "returned" =>
          \E k \in DOMAIN chain.outcomes : chain.outcomes[k] # Threw

\* C21 witness: chain [1, 2], both calls failed and generate threw
C21_Witness ==
    /\ chain.fallbackChain = <<1, 2>>
    /\ chain.preferredModel = NoPreference
    /\ chain.pc = "threw"
    /\ chain.outcomes = <<Threw, Threw>>

\* C22: within one generate no provider is called twice, for every chain
\* and every preference.  Stated as the claim has it; the code violates it:
\* the chain is not deduplicated, so a model listed twice is called twice
\* when its first call fails.
C22_TriedOnce ==
    \A i, j \in DOMAIN chain.attempts :
        i # j => chain.attempts[i] # chain.attempts[j]

\* the provider calls of the request
ProviderCallCount ==
    Len(SelectSeq(trace, LAMBDA e : IsCall(e, "generateStream") \/
                                    IsCall(e, "generate")))

\* the generation of the provider the handler called first has failed: its
\* stream threw before a final item, or ended having yielded nothing, or
\* its single-shot generate threw
FirstProviderFailed ==
    \/ /\ mode = "POST" /\ pc = "done" /\ ~cancelled
       /\ \/ genState = "threw" /\ ~finalImageSent
          \/ genState = "returned" /\ yielded = <<>>
    \/ mode = "PUT" /\ pc = "done" /\ Called("generate") /\ response.status = 500

\* C23: the handlers use the fallback chain in the generating stage: when
\* the first provider's generation fails, or its stream yields nothing,
\* either a next provider is called or, the chain being exhausted, the
\* request ends in error without a completed event.  Stated as the claim
\* has it; the code violates it: the handlers call the one registered
\* provider directly, and a stream that yields nothing ends in a completed
\* event with no second provider call.
C23_FallbackInGeneratingStage ==
    FirstProviderFailed =>
        \/ ProviderCallCount >= 2
        \/ mode = "POST" /\ Emitted("error") /\ ~Emitted("completed")
        \/ mode = "PUT" /\ response.status = 500

\* ==================================================== provider requests
\* GPTImage1Provider.generate and generateStream from their entry to the
\* request they hand to images.generate: the three validate functions of
\* ImageProvider applied to the caller's prompt and options.

modelName == "gpt-image-1"
supportedSizes == <<"1024x1024", "1024x1536", "1536x1024">>
supportedQualities == <<"low", "medium", "high", "auto">>
defaultSize == "1024x1024"
defaultQuality == "high"

\* an option the caller did not pass
Undefined == "undefined"
\* !value, for an optional string
Falsy(value) == value \in {Undefined, ""}

\* a validateSize that keeps whatever size was asked for
validateSize_PassThrough(size) ==
    IF Falsy(size) THEN defaultSize ELSE size

\* ImageProvider.validateSize
validateSize(size) ==
    IF Falsy(size) THEN defaultSize
    ELSE IF size \notin Range(supportedSizes) THEN defaultSize
    ELSE size

\* ImageProvider.validateQuality
validateQuality(quality) ==
    IF Falsy(quality) THEN defaultQuality
    ELSE IF quality \notin Range(supportedQualities) THEN defaultQuality
    ELSE quality

\* a prompt of n characters: an "x", blanks up to the limit, "x" beyond it
PromptOfLength(n) ==
    [i \in 1..n |-> IF i = 1 \/ i > maxPromptLength THEN "x" ELSE " "]

\* the prompts around the limit, and short ones
LongPrompts ==
    {PromptOfLength(n) :
        n \in (maxPromptLength - MaxOver)..(maxPromptLength + MaxOver)}
ShortPrompts == {PromptOfLength(n) : n \in 0..MaxOver}

SizeOptions == Range(supportedSizes) \cup {Undefined, "", "512x512", "1792x1024"}
QualityOptions == Range(supportedQualities) \cup {Undefined, "", "hd"}

\* the arguments of a call: every prompt with the options left out, and
\* every combination of options with a short prompt
ProviderInputs ==
    {[prompt |-> q, size |-> Undefined, quality |-> Undefined] :
        q \in LongPrompts} \cup
    [prompt : ShortPrompts, size : SizeOptions, quality : QualityOptions]

NoRequest == [model |-> "", prompt |-> <<>>, size |-> "", stream |-> FALSE]

ProviderInit ==
    /\ PipeIdle
    /\ AuxIdle
    /\ hook = <<>>
    /\ usage = <<>>
    /\ fetch = <<>>
    /\ MoreIdle
    /\ prov \in {[prompt |-> a.prompt, size |-> a.size, quality |-> a.quality,
                   pc |-> "start", method |-> "", quality_local |-> "",
                   requestParams |-> NoRequest] : a \in ProviderInputs}

\* generate up to its images.generate call
GP_Generate ==
    /\ prov.pc = "start"
    /\ prov' = [prov EXCEPT
                    !.pc = "requested",
                    !.method = "generate",
                    !.quality_local = validateQuality(prov.quality),
                    !.requestParams =
                        [model |-> modelName,
                         prompt |-> validatePrompt(prov.prompt),
                         size |-> validateSize(prov.size),
                         stream |-> FALSE]]
    /\ UNCHANGED <<pipeVars, keys, lookup, chain, hook, usage, fetch, moreVars>>

\* generateStream up to its images.generate call
GP_GenerateStream ==
    /\ prov.pc = "start"
    /\ prov' = [prov EXCEPT
                    !.pc = "requested",
                    !.method = "generateStream",
                    !.requestParams =
                        [model |-> modelName,
                         prompt |-> validatePrompt(prov.prompt),
                         size |-> validateSize(prov.size),
                         stream |-> TRUE]]
    /\ UNCHANGED <<pipeVars, keys, lookup, chain, hook, usage, fetch, moreVars>>

ProviderNext ==
    \/ GP_Generate
    \/ GP_GenerateStream

ProviderSpec == ProviderInit /\ [][ProviderNext]_vars

\* C24: a prompt longer than maxPromptLength is cut to exactly its first
\* maxPromptLength characters and no error is raised; a prompt within the
\* limit is passed unchanged; generate and generateStream both put the
\* validated prompt in the request to the backend.
C24_PromptTruncated ==
    /\ prov.pc \in {"start", "requested"}
    /\ prov.pc = "requested" =>
          /\ prov.method \in {"generate", "generateStream"}
          /\ Len(prov.prompt) > maxPromptLength =>
                /\ Len(prov.requestParams.prompt) = maxPromptLength
                /\ \A i \in 1..maxPromptLength :
                      prov.requestParams.prompt[i] = prov.prompt[i]
          /\ Len(prov.prompt) <= maxPromptLength =>
                prov.requestParams.prompt = prov.prompt

\* C24 witness: generateStream has built its request from a prompt that is
\* longer than the limit
C24_Witness ==
    /\ prov.pc = "requested"
    /\ prov.method = "generateStream"
    /\ Len(prov.prompt) > maxPromptLength

\* C25: validateSize and validateQuality return the requested value when it
\* is supported and the provider's default otherwise, also when the option
\* is absent; they raise no error and what they return is supported.
C25_LenientOptions ==
    prov.pc = "requested" =>
        /\ prov.requestParams.size \in {"1024x1024", "1024x1536", "1536x1024"}
        /\ prov.requestParams.size =
              IF prov.size \in {"1024x1024", "1024x1536", "1536x1024"}
              THEN prov.size ELSE "1024x1024"
        /\ prov.method = "generate" =>
              /\ prov.quality_local \in {"low", "medium", "high", "auto"}
              /\ prov.quality_local =
                    IF prov.quality \in {"low", "medium", "high", "auto"}
                    THEN prov.quality ELSE "high"

\* C25 witness: generate was called with a size and a quality the provider
\* does not support
C25_Witness ==
    /\ prov.pc = "requested"
    /\ prov.method = "generate"
    /\ prov.size = "512x512"
    /\ prov.quality = "hd"

\* the collaborators called, in order, the provider's two entry points
\* under one name
CallNames ==
    [i \in DOMAIN Calls |->
        IF Calls[i].name \in {"generateStream", "generate"} THEN "provider"
        ELSE Calls[i].name]

\* the order in which a handler calls its collaborators
CollaboratorOrder ==
    <<"getCachedImage", "validateURL", "fetchHTML",
      "generateImagePromptFromHTML", "provider", "cacheImage">>

\* the stage events of the stream, the [DONE] sentinel left out
StageEvents == SelectSeq(Events, LAMBDA e : e.name # "[DONE]")
EndsWith(step) ==
    StageEvents # <<>> /\ StageEvents[Len(StageEvents)].name = step

\* the collaborators delivered an artifact: the cache held one, or the
\* provider produced a final image
ArtifactDelivered ==
    \/ cachedResult # Absent
    \/ mode = "POST" /\ \E i \in DOMAIN yielded : ~yielded[i].isPartial
    \/ mode = "PUT" /\ Called("cacheImage")

\* C26: both handlers run the same pipeline: they call the collaborators in
\* the same order, and for the same collaborator outcomes the single-shot
\* handler answers with success exactly when the stream ends with
\* completed, and with an error response exactly when the stream ends with
\* error; that is, either one succeeds exactly when the collaborators
\* delivered an artifact and fails otherwise.  Stated as the claim has it;
\* the code violates it: when the backend delivers no image the stream
\* ends with completed while the single-shot handler answers 500.
C26_SameFinalOutcome ==
    (pc = "done" /\ ~cancelled) =>
        /\ IsPrefix(CallNames, CollaboratorOrder)
        /\ mode = "PUT" =>
              /\ response.status = 200 <=> ArtifactDelivered
              /\ response.status \in {400, 500} <=> ~ArtifactDelivered
        /\ mode = "POST" =>
              /\ EndsWith("completed") <=> ArtifactDelivered
              /\ EndsWith("error") <=> ~ArtifactDelivered

\* ============================================================ the hook
\* useImageGeneration (useDualImageGeneration.ts): generateImage reads the
\* events of one response and folds each into its state.

OtherSteps ==
    {"checking_cache", "validating", "validated", "fetching", "fetched",
     "describing", "described", "generating", "error"}

\* the parsed data of an event the server sends: only partial_image and
\* completed carry an image (Absent: no image field), only error an error
ParsedEvent(step, image, partialIndex) ==
    [step |-> step, image |-> image, partialIndex |-> partialIndex,
     error |-> step = "error"]

PartialEvents ==
    {ParsedEvent("partial_image", a, i) :
        a \in Artifacts, i \in 0..(MaxEvents - 1)}
CompletedEvents ==
    {ParsedEvent("completed", a, Absent) : a \in Artifacts \cup {Absent}}
OtherEvents == {ParsedEvent(step, Absent, Absent) : step \in OtherSteps}
ServerEvents == PartialEvents \cup CompletedEvents \cup OtherEvents

\* GenerationState; partialImages <<>> and image Absent: undefined
GenerationState(step, image, partialImages, error) ==
    [step |-> step, image |-> image, partialImages |-> partialImages,
     error |-> error]

IdleState == GenerationState("idle", Absent, <<>>, FALSE)

PartialImage(parsed) ==
    [base64 |-> parsed.image, partialIndex |-> parsed.partialIndex]
NoPartial == [base64 |-> Absent, partialIndex |-> Absent]
NoEvent == ParsedEvent("", Absent, Absent)

\* a fold that appends each partial image to the ones it has
HookReduce_Appends(prevState, parsed) ==
    IF parsed.step = "partial_image"
    THEN [prevState EXCEPT !.step = "partial_image",
                           !.partialImages = Append(@, PartialImage(parsed)),
                           !.image = Absent]
    ELSE IF parsed.step = "completed"
    THEN [prevState EXCEPT !.step = "completed", !.image = parsed.image,
                           !.partialImages = <<>>]
    ELSE [prevState EXCEPT !.step = parsed.step,
                           !.error = IF parsed.error THEN TRUE ELSE @]

\* the three setState updaters of the read loop
HookReduce(prevState, parsed) ==
    IF parsed.step = "partial_image"
    THEN [prevState EXCEPT !.step = "partial_image",
                           !.partialImages = <<PartialImage(parsed)>>,
                           !.image = Absent]
    ELSE IF parsed.step = "completed"
    THEN [prevState EXCEPT !.step = "completed", !.image = parsed.image,
                           !.partialImages = <<>>]
    ELSE [prevState EXCEPT !.step = parsed.step,
                           !.error = IF parsed.error THEN TRUE ELSE @]

HookInit ==
    /\ PipeIdle
    /\ AuxIdle
    /\ prov = <<>>
    /\ usage = <<>>
    /\ fetch = <<>>
    /\ MoreIdle
    /\ hook = [pc |-> "idle", isGenerating |-> FALSE, state |-> IdleState,
               received |-> 0, lastPartial |-> NoPartial, last |-> NoEvent]

\* generateImage up to the first read
HK_GenerateImage ==
    /\ hook.pc \in {"idle", "ended"}
    /\ hook' = [pc |-> "reading", isGenerating |-> TRUE,
                state |-> GenerationState("fetching", Absent, <<>>, FALSE),
                received |-> 0, lastPartial |-> NoPartial, last |-> NoEvent]
    /\ UNCHANGED <<pipeVars, keys, lookup, chain, prov, usage, fetch, moreVars>>

\* a data line with an event is read, parsed and folded into the state
HK_Receive(parsed) ==
    /\ hook.pc = "reading"
    /\ hook.received < MaxEvents
    /\ hook' = [hook EXCEPT
                    !.state = HookReduce(@, parsed),
                    !.received = @ + 1,
                    !.last = parsed,
                    !.lastPartial = IF parsed.step = "partial_image"
                                    THEN PartialImage(parsed) ELSE @]
    /\ UNCHANGED <<pipeVars, keys, lookup, chain, prov, usage, fetch, moreVars>>

\* the [DONE] line is read, or the body ends: generateImage returns with
\* the state as it is
HK_Done ==
    /\ hook.pc = "reading"
    /\ hook' = [hook EXCEPT !.pc = "ended", !.isGenerating = FALSE]
    /\ UNCHANGED <<pipeVars, keys, lookup, chain, prov, usage, fetch, moreVars>>

\* cancel: the pending read rejects with AbortError and the catch block
\* resets the state (duringRead), or the check at the top of the loop sees
\* the abort and leaves the loop with the state as it is
HK_Cancel(duringRead) ==
    /\ hook.pc = "reading"
    /\ hook' = [hook EXCEPT !.pc = "ended", !.isGenerating = FALSE,
                            !.state = IF duringRead THEN IdleState ELSE @]
    /\ UNCHANGED <<pipeVars, keys, lookup, chain, prov, usage, fetch, moreVars>>

\* the request or a read fails: the catch block sets the error state
HK_Fail ==
    /\ hook.pc = "reading"
    /\ hook' = [hook EXCEPT !.pc = "ended", !.isGenerating = FALSE,
                            !.state = GenerationState("error", Absent, <<>>,
                                                      TRUE)]
    /\ UNCHANGED <<pipeVars, keys, lookup, chain, prov, usage, fetch, moreVars>>

\* reset
HK_Reset ==
    /\ hook.pc = "ended"
    /\ hook' = [hook EXCEPT !.pc = "idle", !.state = IdleState]
    /\ UNCHANGED <<pipeVars, keys, lookup, chain, prov, usage, fetch, moreVars>>

HookNext ==
    \/ HK_GenerateImage
    \/ \E parsed \in ServerEvents : HK_Receive(parsed)
    \/ HK_Done
    \/ \E duringRead \in BOOLEAN : HK_Cancel(duringRead)
    \/ HK_Fail
    \/ HK_Reset

HookSpec == HookInit /\ [][HookNext]_vars

\* C27: after any sequence of received events partialImages holds at most
\* one element, and that element is the partial image received last; right
\* after a completed event partialImages is empty and the image is the
\* event's; right after a partial_image event there is no final image; a
\* final image and a partial image are never both present.
C27_ReplaceDontAppend ==
    /\ Len(hook.state.partialImages) <= 1
    /\ hook.state.partialImages # <<>> =>
          /\ hook.lastPartial.base64 # Absent
          /\ hook.state.partialImages[1] = hook.lastPartial
    /\ ~(hook.state.image # Absent /\ hook.state.partialImages # <<>>)
    /\ (hook.pc = "reading" /\ hook.last.step = "completed") =>
          /\ hook.state.partialImages = <<>>
          /\ hook.state.image = hook.last.image
    /\ (hook.pc = "reading" /\ hook.last.step = "partial_image") =>
          /\ hook.state.image = Absent
          /\ hook.state.partialImages =
                <<[base64 |-> hook.last.image,
                   partialIndex |-> hook.last.partialIndex]>>

\* C27 witness: after three events the hook holds one partial image, the
\* one with index 1 that it received last
C27_Witness ==
    /\ hook.pc = "reading"
    /\ hook.received = 3
    /\ hook.last.step = "partial_image"
    /\ hook.last.partialIndex = 1
    /\ hook.state.partialImages = <<[base64 |-> 1, partialIndex |-> 1]>>

\* the calls of collaborator fn in the request
CallCount(fn) == Len(SelectSeq(trace, LAMBDA e : IsCall(e, fn)))

\* C28: within one request validateURL, fetchHTML and the describe step are
\* each called at most once and the provider's generate / generateStream at
\* most once, whatever the outcomes (the calls other than cacheImage are
\* as many as the collaborators called); no collaborator is called after
\* an error event, and the single-shot handler has ended once it has an
\* error response.
C28_NoRetries ==
    /\ LET calls == {i \in DOMAIN trace : trace[i].t = "call" /\
                                          trace[i].name # "cacheImage"}
       IN Cardinality(calls) =
              Cardinality({IF trace[i].name = "generate" THEN "generateStream"
                           ELSE trace[i].name : i \in calls})
    /\ \A i \in DOMAIN trace :
          IsEvent(trace[i], "error") =>
              \A j \in (i + 1)..Len(trace) : trace[j].t # "call"
    /\ (mode = "PUT" /\ response.status \in {400, 500}) => pc = "done"

\* C28 witness: the provider's stream threw after validation, fetch and
\* describe had each run, and the request ended with the error
C28_Witness ==
    /\ mode = "POST"
    /\ pc = "done"
    /\ genState = "threw"
    /\ CallCount("validateURL") = 1
    /\ CallCount("fetchHTML") = 1
    /\ CallCount("generateImagePromptFromHTML") = 1
    /\ CallCount("generateStream") = 1
    /\ EndsWith("error")

\* ============================================= html-to-image and examples
\* generateImageFromHTML, HTMLImageGenerator (html-to-image.ts) and the
\* SmartImageProvider constructor, with the model names the code uses and
\* the registry ImageProviderFactory has.

GptImage1 == "gpt-image-1"
DallE3 == "dall-e-3"
ModelNames == {GptImage1, DallE3}

\* ImageProviderFactory.providers
Providers_Registered == {GptImage1}

NoModel == ""
UnknownModelMessage(name) == "Unknown image model: " \o name
AllFailedMessage == "All image providers failed"

\* the first name of a list that getProvider throws for, NoModel if none
RECURSIVE FirstUnknown(_)
FirstUnknown(names) ==
    IF names = <<>> THEN NoModel
    ELSE IF Head(names) \notin Providers_Registered THEN Head(names)
    ELSE FirstUnknown(Tail(names))

\* the model lists a chain is constructed with
ModelLists == SeqsOver(ModelNames, MaxChainLen)

\* [model, model === "dall-e-3" ? "gpt-image-1" : "dall-e-3"]
ModelAndOther(model) == <<model, IF model = DallE3 THEN GptImage1 ELSE DallE3>>

NoUsageResult == [image |-> Absent, usedModel |-> NoModel]

Usage(kind, list, model, preferredModel, fallbackEnabled, cleanFirst) ==
    [kind |-> kind, list |-> list, model |-> model,
     preferredModel |-> preferredModel, fallbackEnabled |-> fallbackEnabled,
     cleanFirst |-> cleanFirst, pc |-> "start", fallbackChain |-> <<>>,
     providers |-> <<>>, attempts |-> 0, firstOutcome |-> Absent,
     result |-> NoUsageResult, error |-> ""]

\* the calls looked at: generateImageFromHTML with its options; a
\* SmartImageProvider constructed from a list and asked to generate; an
\* HTMLImageGenerator constructed from a list and asked to generateFromHTML
UsageInputs ==
    {Usage("generateImageFromHTML", <<>>, m, NoModel, f, c) :
        m \in ModelNames, f \in BOOLEAN, c \in BOOLEAN} \cup
    {Usage("SmartImageProvider", l, NoModel, q, TRUE, FALSE) :
        l \in ModelLists, q \in ModelNames \cup {NoModel}} \cup
    {Usage("HTMLImageGenerator", l, m, NoModel, TRUE, c) :
        l \in ModelLists, m \in ModelNames, c \in BOOLEAN}

UsageInit ==
    /\ PipeIdle
    /\ AuxIdle
    /\ prov = <<>>
    /\ hook = <<>>
    /\ fetch = <<>>
    /\ MoreIdle
    /\ usage \in UsageInputs

\* new SmartImageProvider(list), directly or inside new HTMLImageGenerator:
\* every name is looked up in the registry
US_Construct ==
    /\ usage.kind \in {"SmartImageProvider", "HTMLImageGenerator"}
    /\ usage.pc = "start"
    /\ LET unknown == FirstUnknown(usage.list) IN
       IF unknown # NoModel
       THEN usage' = [usage EXCEPT !.pc = "constructor threw",
                                   !.error = UnknownModelMessage(unknown)]
       ELSE usage' = [usage EXCEPT !.pc = "constructed",
                                   !.fallbackChain = usage.list]
    /\ UNCHANGED <<pipeVars, keys, lookup, chain, prov, hook, fetch, moreVars>>

\* generateImageFromHTML up to the provider's generate: the html is cleaned
\* (cleanOk: cleanHTML resolves), the prompt created, and the provider or
\* the chain of [model, the other model] set up; called directly or through
\* generateFromHTML, which passes fallbackEnabled: true
US_GenerateImageFromHTML(cleanOk) ==
    /\ \/ usage.kind = "generateImageFromHTML" /\ usage.pc = "start"
       \/ usage.kind = "HTMLImageGenerator" /\ usage.pc = "constructed"
    /\ IF usage.cleanFirst /\ ~cleanOk
       THEN usage' = [usage EXCEPT !.pc = "threw", !.error = "cleanHTML"]
       ELSE IF usage.fallbackEnabled
       THEN LET names == ModelAndOther(usage.model)
                unknown == FirstUnknown(names)
            IN IF unknown # NoModel
               THEN usage' = [usage EXCEPT
                                 !.pc = "threw",
                                 !.error = UnknownModelMessage(unknown)]
               ELSE usage' = [usage EXCEPT
                                 !.pc = "generating",
                                 !.fallbackChain = names,
                                 !.providers =
                                     PreferredFirst(names, usage.model),
                                 !.attempts = 1]
       ELSE IF usage.model \notin Providers_Registered
       THEN usage' = [usage EXCEPT !.pc = "threw",
                                   !.error = UnknownModelMessage(usage.model)]
       ELSE usage' = [usage EXCEPT !.pc = "generating",
                                   !.providers = <<usage.model>>,
                                   !.attempts = 1]
    /\ UNCHANGED <<pipeVars, keys, lookup, chain, prov, hook, fetch, moreVars>>

\* smartProvider.generate up to its first provider call
US_Generate ==
    /\ usage.kind = "SmartImageProvider"
    /\ usage.pc = "constructed"
    /\ IF usage.preferredModel # NoModel /\
          usage.preferredModel \notin Providers_Registered
       THEN usage' = [usage EXCEPT
                         !.pc = "threw",
                         !.error = UnknownModelMessage(usage.preferredModel)]
       ELSE LET order == IF usage.preferredModel = NoModel
                         THEN usage.fallbackChain
                         ELSE PreferredFirst(usage.fallbackChain,
                                             usage.preferredModel)
            IN IF order = <<>>
               THEN usage' = [usage EXCEPT !.pc = "threw",
                                           !.error = AllFailedMessage]
               ELSE usage' = [usage EXCEPT !.pc = "generating",
                                           !.providers = order,
                                           !.attempts = 1]
    /\ UNCHANGED <<pipeVars, keys, lookup, chain, prov, hook, fetch, moreVars>>

\* the provider call in flight settles
US_Settle(outcome) ==
    /\ usage.pc = "generating"
    /\ LET provider == usage.providers[usage.attempts]
           first == IF usage.attempts = 1 THEN outcome ELSE usage.firstOutcome
       IN IF outcome # Threw
          THEN usage' = [usage EXCEPT
                            !.pc = "returned", !.firstOutcome = first,
                            !.result = [image |-> outcome,
                                        usedModel |-> provider]]
          ELSE IF usage.attempts < Len(usage.providers)
          THEN usage' = [usage EXCEPT !.attempts = @ + 1,
                                      !.firstOutcome = first,
                                      !.error = "provider"]
          ELSE usage' = [usage EXCEPT !.pc = "threw", !.firstOutcome = first,
                                      !.error = "provider"]
    /\ UNCHANGED <<pipeVars, keys, lookup, chain, prov, hook, fetch, moreVars>>

UsageNext ==
    \/ US_Construct
    \/ \E cleanOk \in BOOLEAN : US_GenerateImageFromHTML(cleanOk)
    \/ US_Generate
    \/ \E outcome \in AttemptOutcomes : US_Settle(outcome)

UsageSpec == UsageInit /\ [][UsageNext]_vars

\* C29: generateImageFromHTML with fallback enabled and model gpt-image-1
\* attempts gpt-image-1 first and, when that call succeeds, returns
\* usedModel gpt-image-1; and constructing a SmartImageProvider or an
\* HTMLImageGenerator with [gpt-image-1, dall-e-3] or [dall-e-3,
\* gpt-image-1] succeeds and yields that chain.  Stated as the claim has
\* it; the code violates it: dall-e-3 is not in the registry, so the
\* constructor throws and no provider is attempted.
C29_ExamplesWork ==
    /\ (/\ usage.fallbackEnabled
        /\ usage.model = "gpt-image-1"
        /\ \/ usage.kind = "generateImageFromHTML" /\ usage.pc # "start"
           \/ usage.kind = "HTMLImageGenerator" /\
                 usage.pc \notin {"start", "constructor threw", "constructed"}
        /\ usage.error # "cleanHTML") =>
          /\ usage.attempts >= 1
          /\ usage.providers[1] = "gpt-image-1"
          /\ (usage.firstOutcome \notin {Absent, Threw}) =>
                /\ usage.pc = "returned"
                /\ usage.result.usedModel = "gpt-image-1"
    /\ (/\ usage.kind \in {"SmartImageProvider", "HTMLImageGenerator"}
        /\ usage.list \in {<<"gpt-image-1", "dall-e-3">>,
                            <<"dall-e-3", "gpt-image-1">>}
        /\ usage.pc # "start") =>
          /\ usage.pc # "constructor threw"
          /\ usage.fallbackChain = usage.list

\* =============================================================== fetchHTML
\* fetchHTML (fetch-html.ts), one action per await.  Error messages are
\* sequences of words, so that message.includes is computed on them.

Hostnames == {"localhost", "127.0.0.1", "example.com", "other.site"}
InvalidUrl == "not a url"
FetchTargets == Hostnames \cup {InvalidUrl}

OkStatus == "200"
Statuses == {OkStatus, "404", "500"}

\* the message of the TypeError a rejected fetch carries: that of the
\* server runtime or that of a browser
RejectionMessages == {<<"fetch", "failed">>, <<"Failed", "to", "fetch">>}

\* what a fetch call can do: reject with a message, or resolve with a
\* response of some status
NetOutcomes ==
    {[rejected |-> TRUE, message |-> m, status |-> ""] :
        m \in RejectionMessages} \cup
    {[rejected |-> FALSE, message |-> <<>>, status |-> st] : st \in Statuses}
NoOutcome == [rejected |-> FALSE, message |-> <<>>, status |-> ""]

\* the body of the proxy's answer: status.http_code ("": none) and whether
\* contents is there
ProxyBodies == [http_code : Statuses \cup {""}, contents : BOOLEAN]
NoBody == [http_code |-> "", contents |-> FALSE]

\* message.includes(pattern)
Includes(message, pattern) ==
    \E i \in 0..(Len(message) - Len(pattern)) :
        SubSeq(message, i + 1, i + Len(pattern)) = pattern

\* getMockHTML: the mock for a hostname that includes example.com, or the
\* generic one
getMockHTML(hostname) ==
    IF hostname = "example.com" THEN "mock: Example Domain"
    ELSE "mock: Demo Page"

Returned(f, content) == [f EXCEPT !.pc = "returned", !.result = content]

\* the catch block of fetchHTML
FetchCatch(f, message) ==
    IF Includes(message, <<"Failed", "to", "fetch">>)
    THEN Returned(f, getMockHTML(f.url))
    ELSE [f EXCEPT !.pc = "threw", !.error = message]

FetchInit ==
    /\ PipeIdle
    /\ AuxIdle
    /\ prov = <<>>
    /\ hook = <<>>
    /\ usage = <<>>
    /\ MoreIdle
    /\ fetch \in {[url |-> u, pc |-> "start", direct |-> NoOutcome,
                    proxy |-> NoOutcome, body |-> NoBody, result |-> "",
                    error |-> <<>>] : u \in FetchTargets}

\* new URL(url), and the first fetch is started
FH_Start ==
    /\ fetch.pc = "start"
    /\ fetch' = IF fetch.url = InvalidUrl
                THEN FetchCatch(fetch, <<"Invalid", "URL">>)
                ELSE IF fetch.url \in {"localhost", "127.0.0.1"}
                THEN [fetch EXCEPT !.pc = "local"]
                ELSE [fetch EXCEPT !.pc = "direct"]
    /\ UNCHANGED <<pipeVars, keys, lookup, chain, prov, hook, usage, moreVars>>

\* the fetch of a localhost target settles
FH_Local(outcome) ==
    /\ fetch.pc = "local"
    /\ LET f == [fetch EXCEPT !.direct = outcome] IN
       fetch' = IF outcome.rejected THEN FetchCatch(f, outcome.message)
                ELSE IF outcome.status # OkStatus
                THEN FetchCatch(f, <<"Failed", "to", "fetch", "URL:",
                                     outcome.status>>)
                ELSE Returned(f, "html")
    /\ UNCHANGED <<pipeVars, keys, lookup, chain, prov, hook, usage, moreVars>>

\* the direct fetch of an external target settles; on anything but an ok
\* response the proxy fetch is started
FH_Direct(outcome) ==
    /\ fetch.pc = "direct"
    /\ LET f == [fetch EXCEPT !.direct = outcome] IN
       fetch' = IF ~outcome.rejected /\ outcome.status = OkStatus
                THEN Returned(f, "html")
                ELSE [f EXCEPT !.pc = "proxy"]
    /\ UNCHANGED <<pipeVars, keys, lookup, chain, prov, hook, usage, moreVars>>

\* the proxy fetch settles and its body is read
FH_Proxy(outcome, body) ==
    /\ fetch.pc = "proxy"
    /\ outcome.rejected \/ outcome.status # OkStatus => body = NoBody
    /\ LET f == [fetch EXCEPT !.proxy = outcome, !.body = body] IN
       fetch' = IF outcome.rejected THEN FetchCatch(f, outcome.message)
                ELSE IF outcome.status # OkStatus
                THEN FetchCatch(f, <<"Proxy", "fetch", "failed:",
                                     outcome.status>>)
                ELSE IF body.http_code # "" /\ body.http_code # OkStatus
                THEN FetchCatch(f, <<"Target", "site", "returned:",
                                     body.http_code>>)
                ELSE Returned(f, IF body.contents THEN "html" ELSE "")
    /\ UNCHANGED <<pipeVars, keys, lookup, chain, prov, hook, usage, moreVars>>

FetchNext ==
    \/ FH_Start
    \/ \E outcome \in NetOutcomes : FH_Local(outcome)
    \/ \E outcome \in NetOutcomes : FH_Direct(outcome)
    \/ \E outcome \in NetOutcomes, body \in ProxyBodies :
          FH_Proxy(outcome, body)

FetchSpec == FetchInit /\ [][FetchNext]_vars

\* a request of the call got a successful response
GotOkResponse ==
    \/ ~fetch.direct.rejected /\ fetch.direct.status = "200"
    \/ /\ ~fetch.proxy.rejected /\ fetch.proxy.status = "200"
       /\ fetch.body.http_code \in {"", "200"}

\* C30: whenever neither the direct request nor the proxy request got a
\* successful response, including a non-OK status for a localhost target,
\* fetchHTML throws; it never returns substitute content.  Stated as the
\* claim has it; the code violates it: an error whose message contains
\* "Failed to fetch" is answered with mock html.
C30_FetchFailsLoudly ==
    /\ (fetch.pc \in {"returned", "threw"} /\ ~GotOkResponse) =>
          fetch.pc = "threw"
    /\ fetch.pc = "returned" => fetch.result \in {"html", ""}

\* ------------------------------------------------------------------------
\* Termination of the streaming handler.  Every await of the handler settles
\* (the collaborator returns or throws) and the provider stream is finite, so
\* a step of the POST handler that is enabled is eventually taken.
POST_Step ==
    \/ POST_Start
    \/ \E readsOk \in BOOLEAN : POST_CacheChecked(readsOk)
    \/ \E v \in ValidationResults : POST_Validated(v)
    \/ \E ok \in BOOLEAN : POST_Fetched(ok)
    \/ \E out \in DescribeOutcomes : POST_Described(out)
    \/ \E ev \in UpstreamEvents : POST_StreamEvent(ev)
    \/ POST_StreamEnd
    \/ POST_StreamThrow

\* one streaming request; the writes of the blob store are not awaited by
\* the handler (cacheImage(...).catch(...) is not awaited), so the handler's
\* steps and the client's cancel are all that acts on the stream
LiveInit == Init /\ mode = "POST"

LiveNext == Cancel \/ POST_Step

LiveSpec == LiveInit /\ [][LiveNext]_vars /\ WF_vars(POST_Step)

\* the positions of trace at which the handler closed the stream
Closes == {i \in DOMAIN trace : trace[i].t = "close"}

\* the stream was closed once and that was the handler's last act on it
ClosedOnceAtEnd ==
    /\ Cardinality(Closes) = 1
    /\ \A i \in Closes : \A j \in (i + 1)..Len(trace) : trace[j].t = "cancel"

\* C31: on every run of the streaming handler in which the client does not
\* cancel, the handler eventually closes the stream; it closes it at most
\* once and enqueues nothing after the close, and when it has returned the
\* stream is closed.
C31_StreamTerminates ==
    /\ []((mode = "POST" /\ ~cancelled) =>
              /\ Cardinality(Closes) <= 1
              /\ \A i \in Closes : i = Len(trace)
              /\ pc = "done" => ClosedOnceAtEnd)
    /\ <>(mode # "POST" \/ cancelled \/ (pc = "done" /\ ClosedOnceAtEnd))

\* an uncancelled streaming request has run to its end through the provider
\* stream and closed the stream after [DONE]
C31_Witness ==
    /\ mode = "POST"
    /\ ~cancelled
    /\ pc = "done"
    /\ genState = "returned"
    /\ ClosedOnceAtEnd
    /\ Len(trace) >= 2
    /\ trace[Len(trace) - 1] = Done

\* the positions of trace at which the streaming handler started a cache store
StoreCallAt == {i \in DOMAIN trace : IsCall(trace[i], "cacheImage")}

\* C32: a streaming request starts at most one cache store, the store is for
\* an item the provider yielded as final, and the stored artifact is the
\* artifact of the request's completed event, for every sequence of items of
\* the provider stream.  Stated as the claim has it; the code violates it:
\* the loop of the route stores every final item, and the provider yields a
\* final item for an image event and again for the completed event.
C32_OneStorePerRequest ==
    mode = "POST" =>
        /\ Cardinality(StoreCallAt) <= 1
        /\ \A i \in StoreCallAt :
              /\ \E k \in DOMAIN yielded :
                    ~yielded[k].isPartial /\ yielded[k].base64 = trace[i].image
              /\ \A j \in DOMAIN trace :
                    IsEvent(trace[j], "completed") =>
                        trace[j].image = trace[i].image

\* ================================================== overlapping requests
\* useImageGeneration with a second generateImage call made while the first
\* is in flight.  overlap.pc[r] is the await request r is suspended at
\* ("fetch": the fetch call, "read": reader.read()), overlap.ref is
\* abortControllerRef.current (0: null, r: the controller of request r),
\* overlap.aborted[r] is the signal of the controller of request r, and
\* overlap.state is the step of the hook's state.

\* the steps of the events a request may receive
OverlapSteps == {ev.step : ev \in ServerEvents}
ReadOutcomes == OverlapSteps \cup {"end", "[DONE]", "fail"}

OverlapIdle ==
    [state |-> "idle", isGenerating |-> FALSE, ref |-> 0,
     aborted |-> <<FALSE, FALSE>>, pc |-> <<"none", "none">>]

OverlapInit ==
    /\ PipeIdle
    /\ AuxIdle
    /\ prov = <<>>
    /\ hook = <<>>
    /\ usage = <<>>
    /\ fetch = <<>>
    /\ sse = <<>>
    /\ vurl = <<>>
    /\ dual = <<>>
    /\ overlap = OverlapIdle

\* the finally block of request r
OverlapFinally(o, r) ==
    [o EXCEPT !.isGenerating = FALSE,
              !.ref = IF @ = r THEN 0 ELSE @,
              !.pc[r] = "ended"]

\* the catch block of request r: an AbortError resets the state to idle,
\* any other error sets the error state
OverlapCatch(o, r, abortError) ==
    [o EXCEPT !.state = IF abortError THEN "idle" ELSE "error"]

\* generateImage for request r up to its await of fetch; the second call is
\* made while the first is suspended
OV_GenerateImage(r) ==
    /\ overlap.pc[r] = "none"
    /\ r = 2 => overlap.pc[1] \in {"fetch", "read"}
    /\ r = 1 => overlap.pc[2] = "none"
    /\ overlap' = [overlap EXCEPT
                       !.aborted = IF overlap.ref # 0
                                   THEN [@ EXCEPT ![overlap.ref] = TRUE] ELSE @,
                       !.ref = r,
                       !.isGenerating = TRUE,
                       !.state = "fetching",
                       !.pc[r] = "fetch"]
    /\ UNCHANGED <<pipeVars, keys, lookup, chain, prov, hook, usage, fetch,
                   sse, vurl, dual>>

\* cancel()
OV_Cancel ==
    /\ overlap.ref # 0
    /\ overlap' = [overlap EXCEPT !.aborted[overlap.ref] = TRUE, !.ref = 0]
    /\ UNCHANGED <<pipeVars, keys, lookup, chain, prov, hook, usage, fetch,
                   sse, vurl, dual>>

\* the fetch of request r settles: it rejects with AbortError when the
\* signal is aborted, otherwise the response is ok, or not ok (or the fetch
\* fails) and the catch block runs
OV_FetchSettles(r, ok) ==
    /\ overlap.pc[r] = "fetch"
    /\ overlap' =
          IF overlap.aborted[r]
          THEN OverlapFinally(OverlapCatch(overlap, r, TRUE), r)
          ELSE IF ok THEN [overlap EXCEPT !.pc[r] = "read"]
          ELSE OverlapFinally(OverlapCatch(overlap, r, FALSE), r)
    /\ UNCHANGED <<pipeVars, keys, lookup, chain, prov, hook, usage, fetch,
                   sse, vurl, dual>>

\* the reader.read() of request r settles and the loop runs to its next
\* await or to the end of generateImage.  With the signal aborted the read
\* rejects with AbortError (atTop FALSE), or it had resolved and the check
\* at the top of the loop breaks (atTop TRUE).
OV_ReadSettles(r, outcome, atTop) ==
    /\ overlap.pc[r] = "read"
    /\ overlap' =
          IF overlap.aborted[r]
          THEN IF atTop THEN OverlapFinally(overlap, r)
               ELSE OverlapFinally(OverlapCatch(overlap, r, TRUE), r)
          ELSE IF outcome \in OverlapSteps
          THEN [overlap EXCEPT !.state = outcome]
          ELSE IF outcome = "fail"
          THEN OverlapFinally(OverlapCatch(overlap, r, FALSE), r)
          ELSE OverlapFinally(overlap, r)
    /\ UNCHANGED <<pipeVars, keys, lookup, chain, prov, hook, usage, fetch,
                   sse, vurl, dual>>

OverlapNext ==
    \/ \E r \in 1..2 : OV_GenerateImage(r)
    \/ OV_Cancel
    \/ \E r \in 1..2, ok \in BOOLEAN : OV_FetchSettles(r, ok)
    \/ \E r \in 1..2, outcome \in ReadOutcomes, atTop \in BOOLEAN :
          OV_ReadSettles(r, outcome, atTop)

OverlapSpec == OverlapInit /\ [][OverlapNext]_vars

\* request r is in flight: suspended at an await and not aborted
InFlight(r) == overlap.pc[r] \in {"fetch", "read"} /\ ~overlap.aborted[r]

\* C33: when generateImage is called a second time while the first request
\* is in flight (directly or after cancel()), then for as long as the second
\* request is in flight isGenerating is true and the state is not idle: the
\* late abort handling of the first request changes neither.  Stated as the
\* claim has it; the code violates it: the first call's catch block sets the
\* idle state and its finally block sets isGenerating to false, whichever
\* request is current.
C33_SecondRequestUndisturbed ==
    InFlight(2) => overlap.isGenerating /\ overlap.state # "idle"

\* ===================================================== chunked SSE body
\* The read loop of useImageGeneration on a response body that arrives in
\* chunks.  The body is a sequence of symbols (pieces of text that a chunk
\* boundary does not cut further): the prefix "data: " is two symbols, a
\* JSON payload three, the [DONE] payload two, and the newline one.

NL == "\n"
DataPrefix == <<"da", "ta: ">>
DoneText == <<"[DO", "NE]">>
SseEvents == {"a", "b"}
DoneRecord == "DONE"

\* JSON.stringify of an event
JsonText(e) == <<"{", e, "}">>

\* JSON.parse of a data text: the event, or "" when it throws
JsonParse(data) ==
    IF Len(data) = 3 /\ data[1] = "{" /\ data[3] = "}" /\ data[2] \in SseEvents
    THEN data[2] ELSE ""

\* what the server enqueues for a record: `data: ${...}\n\n`
RecordBytes(rec) ==
    DataPrefix \o (IF rec = DoneRecord THEN DoneText ELSE JsonText(rec))
               \o <<NL, NL>>

RECURSIVE BodyOf(_)
BodyOf(recs) ==
    IF recs = <<>> THEN <<>> ELSE RecordBytes(Head(recs)) \o BodyOf(Tail(recs))

\* String.prototype.split("\n")
RECURSIVE SplitLines(_)
SplitLines(str) ==
    IF \A i \in DOMAIN str : str[i] # NL THEN <<str>>
    ELSE LET k == CHOOSE i \in DOMAIN str :
                      str[i] = NL /\ \A j \in 1..(i - 1) : str[j] # NL
         IN <<SubSeq(str, 1, k - 1)>> \o SplitLines(SubSeq(str, k + 1, Len(str)))

StartsWith(str, prefix) ==
    Len(str) >= Len(prefix) /\ SubSeq(str, 1, Len(prefix)) = prefix

\* the body of `for (const line of lines)` for one line: acc.applied are the
\* events handed to setState, acc.returned is set by the [DONE] line
ProcessLine(acc, line) ==
    IF acc.returned THEN acc
    ELSE IF Trim(line) = <<>> THEN acc
    ELSE IF StartsWith(line, DataPrefix)
    THEN LET data == Trim(SubSeq(line, Len(DataPrefix) + 1, Len(line)))
         IN IF data = DoneText THEN [acc EXCEPT !.returned = TRUE]
            ELSE IF data # <<>> /\ JsonParse(data) # ""
            THEN [acc EXCEPT !.applied = Append(@, JsonParse(data))]
            ELSE acc
    ELSE acc

RECURSIVE ProcessLines(_, _)
ProcessLines(acc, lines) ==
    IF lines = <<>> THEN acc
    ELSE ProcessLines(ProcessLine(acc, Head(lines)), Tail(lines))

\* a loop that treats the text after the last newline as a line too
ProcessChunk_NoBuffer(buffer, chunk, applied) ==
    LET acc == ProcessLines([applied |-> applied, returned |-> FALSE],
                            SplitLines(buffer \o chunk))
    IN [buffer |-> <<>>, applied |-> acc.applied, returned |-> acc.returned]

\* one turn of the read loop on a chunk: buffer += chunk, split, keep the
\* last (incomplete) line in the buffer, process the others
ProcessChunk(buffer, chunk, applied) ==
    LET lines == SplitLines(buffer \o chunk)
        acc == ProcessLines([applied |-> applied, returned |-> FALSE],
                            SubSeq(lines, 1, Len(lines) - 1))
    IN [buffer |-> lines[Len(lines)], applied |-> acc.applied,
        returned |-> acc.returned]

\* the bodies a server may send: up to MaxEvents records
SseBodies ==
    UNION {[1..n -> SseEvents \cup {DoneRecord}] : n \in 0..MaxEvents}

SseInit ==
    /\ PipeIdle
    /\ AuxIdle
    /\ prov = <<>>
    /\ hook = <<>>
    /\ usage = <<>>
    /\ fetch = <<>>
    /\ overlap = <<>>
    /\ vurl = <<>>
    /\ dual = <<>>
    /\ \E recs \in SseBodies :
          sse = [records |-> recs, body |-> BodyOf(recs), pos |-> 0,
                 buffer |-> <<>>, applied |-> <<>>, pc |-> "reading",
                 carried |-> FALSE]

\* reader.read() resolves with the next n symbols of the body
SSE_Read(n) ==
    /\ sse.pc = "reading"
    /\ sse.pos + n <= Len(sse.body)
    /\ LET chunk == SubSeq(sse.body, sse.pos + 1, sse.pos + n)
           r == ProcessChunk(sse.buffer, chunk, sse.applied)
       IN sse' = [sse EXCEPT !.pos = @ + n,
                             !.buffer = r.buffer,
                             !.applied = r.applied,
                             !.pc = IF r.returned THEN "returned" ELSE @,
                             !.carried = @ \/ (~r.returned /\ r.buffer # <<>>)]
    /\ UNCHANGED <<pipeVars, keys, lookup, chain, prov, hook, usage, fetch,
                   overlap, vurl, dual>>

\* reader.read() resolves with done: the loop breaks
SSE_End ==
    /\ sse.pc = "reading"
    /\ sse.pos = Len(sse.body)
    /\ sse' = [sse EXCEPT !.pc = "ended"]
    /\ UNCHANGED <<pipeVars, keys, lookup, chain, prov, hook, usage, fetch,
                   overlap, vurl, dual>>

SseNext ==
    \/ \E n \in 1..Len(sse.body) : SSE_Read(n)
    \/ SSE_End

SseSpec == SseInit /\ [][SseNext]_vars

\* what the records of which the first newline lies within the first pos
\* symbols of the body make the client do: the events to apply, in order,
\* up to the first [DONE] record
RECURSIVE RecordsWithin(_, _)
RecordsWithin(recs, pos) ==
    IF recs = <<>> \/ pos < Len(RecordBytes(Head(recs))) - 1
    THEN [applied |-> <<>>, returned |-> FALSE]
    ELSE IF Head(recs) = DoneRecord
    THEN [applied |-> <<>>, returned |-> TRUE]
    ELSE LET rest == RecordsWithin(Tail(recs),
                                   pos - Len(RecordBytes(Head(recs))))
         IN [applied |-> <<Head(recs)>> \o rest.applied,
             returned |-> rest.returned]

\* C34: however the body is cut into chunks, after each read the client has
\* applied exactly the events of the records that are complete in what it
\* has read, once each and in order, and nothing of a record that is not yet
\* complete; it has returned exactly when a [DONE] record is among them,
\* and applies nothing after it.
C34_ChunkIndependent ==
    LET want == RecordsWithin(sse.records, sse.pos)
    IN /\ sse.applied = want.applied
       /\ (sse.pc = "returned") = want.returned

\* a body of two events and [DONE] was read to its end in chunks of which
\* one ended inside a record
C34_Witness ==
    /\ sse.pc = "returned"
    /\ sse.carried
    /\ Len(sse.applied) = 2
    /\ sse.pos = Len(sse.body)

\* the request ended with its result delivered: a completed event of the
\* streaming handler, a 200 response of the single-shot handler
RequestCompleted ==
    /\ pc = "done"
    /\ \/ mode = "POST" /\ Emitted("completed") /\ ~Emitted("error")
       \/ mode = "PUT" /\ response.status = 200

\* every cacheImage call of the request has finished both of its writes
\* successfully
StoresWritten ==
    \A i \in DOMAIN storeTasks :
        storeTasks[i].img = "ok" /\ storeTasks[i].meta = "ok"

\* C35: the handlers read the cache under the key they write it under, so
\* once a request for a url has completed and the writes of its stores have
\* succeeded, the lookup of the next request for the url (its reads
\* succeeding) is a hit, and the hit returns an artifact the request
\* delivered.  Stated as the claim has it; the code violates it: a request
\* whose provider stream yields no final item completes without a store.
C35_CompletedThenHit ==
    (RequestCompleted /\ StoresWritten) =>
        /\ GetCachedImage(store, TRUE) # Absent
        /\ mode = "POST" =>
              \E i \in DOMAIN trace :
                  /\ IsEvent(trace[i], "completed")
                  /\ trace[i].image = GetCachedImage(store, TRUE)

\* C36: a lookup that returns a hit returns an artifact and metadata that
\* were written by one and the same store call, whatever stores ran for the
\* key before it or run while it reads (a store that wrote one of its two
\* objects over an existing entry and has not, or never, written the other
\* included).  Stated as the claim has it; the code violates it: the lookup
\* tests only that both objects exist and reads whatever each key holds.
C36_HitFromOneStore ==
    (lookup.pc = "done" /\ lookup.result # Absent) =>
        /\ lookup.imageBlob.state = "ok"
        /\ lookup.metadataBlob.state = "ok"
        /\ lookup.imageBlob.data = lookup.metadataBlob.data

\* ============================================================ validateURL
\* validateURL (actions/test-posthog): the format test, the pattern test and
\* the classifier call.  A url is a sequence of tokens, the classifier's text
\* a sequence of symbols (words, the space and the newline).

Schemes == {"https://", "file:", "ftp:"}
UrlTokens == Schemes \cup {"localhost", "LOCALHOST", "10.", "example.com"}
ValidatedUrls == StringsOver(UrlTokens, MaxUrlLen) \ {<<>>}

\* new URL(url) does not throw: the url starts with a scheme and, but for
\* file:, something follows it
ParsesAsURL(url) ==
    /\ url # <<>>
    /\ url[1] \in Schemes
    /\ Len(url) >= 2 \/ url[1] = "file:"

\* the tokens the unsafePatterns match, in lower case (the patterns carry
\* the flag i)
unsafePatterns ==
    {"localhost", "127.0.0.1", "192.168.", "10.", "172.16.", "file:", "ftp:"}

LowerCase(tok) == IF tok = "LOCALHOST" THEN "localhost" ELSE tok

\* pattern.test(url) for some pattern
MatchesUnsafePattern(url) ==
    \E i \in DOMAIN url : LowerCase(url[i]) \in unsafePatterns

\* what the classifier call can do: reject, resolve with a response without
\* choices (reading choices[0] throws), or resolve with a text
VerdictWords == {"SAFE", "safe", "UNSAFE", "POTENTIALLY_UNSAFE", "MAYBE"}
TextSymbols == VerdictWords \cup {" ", NL, "because"}
ClassifierTexts == StringsOver(TextSymbols, MaxText + 2)
ClassifierOutcomes ==
    {[kind |-> "rejects", text |-> <<>>], [kind |-> "nochoices", text |-> <<>>]}
        \cup {[kind |-> "text", text |-> t] : t \in ClassifierTexts}

\* String.prototype.trim() on a text with newlines
RECURSIVE TrimText(_)
TrimText(str) ==
    IF str = <<>> THEN str
    ELSE IF Head(str) \in {" ", NL} THEN TrimText(Tail(str))
    ELSE IF str[Len(str)] \in {" ", NL}
    THEN TrimText(SubSeq(str, 1, Len(str) - 1))
    ELSE str

UpperCase(line) ==
    [i \in DOMAIN line |-> IF line[i] = "safe" THEN "SAFE" ELSE line[i]]

URLValidationResult(isValid, category, reason) ==
    [isValid |-> isValid, category |-> category, reason |-> reason]

\* a catch block that rejects the url
validateURL_catch_FailsClosed ==
    URLValidationResult(FALSE, "unsafe", "Could not validate URL safety")

\* the outer catch block of validateURL
validateURL_catch ==
    URLValidationResult(TRUE, "potentially_unsafe",
                        "Could not validate URL safety, proceeding with caution")

\* the code from the classifier's text to the result (the switch on verdict)
VerdictResult(text) ==
    LET lines == SplitLines(TrimText(text))
        verdict == UpperCase(Trim(lines[1]))
        given == Len(lines) > 1 /\ Trim(lines[2]) # <<>>
    IN IF verdict = <<"SAFE">> THEN URLValidationResult(TRUE, "safe", "")
       ELSE IF verdict = <<"POTENTIALLY_UNSAFE">>
       THEN URLValidationResult(TRUE, "potentially_unsafe",
                IF given THEN "given"
                ELSE "May contain mixed or user-generated content")
       ELSE IF verdict = <<"UNSAFE">>
       THEN URLValidationResult(FALSE, "unsafe",
                IF given THEN "given" ELSE "URL deemed unsafe for scraping")
       ELSE URLValidationResult(TRUE, "potentially_unsafe",
                "Validation result unclear, proceeding with caution")

NotValidated == URLValidationResult(FALSE, "", "")
NotClassified == [kind |-> "", text |-> <<>>]

ValidateInit ==
    /\ PipeIdle
    /\ AuxIdle
    /\ prov = <<>>
    /\ hook = <<>>
    /\ usage = <<>>
    /\ fetch = <<>>
    /\ overlap = <<>>
    /\ sse = <<>>
    /\ dual = <<>>
    /\ \E u \in ValidatedUrls :
          vurl = [url |-> u, pc |-> "start", classifierCalled |-> FALSE,
                  outcome |-> NotClassified, result |-> NotValidated]

\* validateURL up to its return or its await of the classifier
VU_Start ==
    /\ vurl.pc = "start"
    /\ vurl' =
          IF ~ParsesAsURL(vurl.url)
          THEN [vurl EXCEPT !.pc = "returned",
                    !.result = URLValidationResult(FALSE, "unsafe",
                                                   "Invalid URL format")]
          ELSE IF MatchesUnsafePattern(vurl.url)
          THEN [vurl EXCEPT !.pc = "returned",
                    !.result = URLValidationResult(FALSE, "unsafe",
                        "URL points to private/local network or uses unsafe protocol")]
          ELSE [vurl EXCEPT !.pc = "classifier", !.classifierCalled = TRUE]
    /\ UNCHANGED <<pipeVars, keys, lookup, chain, prov, hook, usage, fetch,
                   overlap, sse, dual>>

\* the classifier call settles: validateURL runs to its return
VU_Classified(outcome) ==
    /\ vurl.pc = "classifier"
    /\ vurl' = [vurl EXCEPT
                    !.pc = "returned",
                    !.outcome = outcome,
                    !.result = IF outcome.kind = "text"
                               THEN VerdictResult(outcome.text)
                               ELSE validateURL_catch]
    /\ UNCHANGED <<pipeVars, keys, lookup, chain, prov, hook, usage, fetch,
                   overlap, sse, dual>>

ValidateNext ==
    \/ VU_Start
    \/ \E outcome \in ClassifierOutcomes : VU_Classified(outcome)

ValidateSpec == ValidateInit /\ [][ValidateNext]_vars

\* the first line of the classifier's text is one of the three verdicts, in
\* either case, with blanks around it
RecognisedVerdict(text) ==
    \E w \in {"SAFE", "safe", "UNSAFE", "POTENTIALLY_UNSAFE"} :
        \E i \in DOMAIN text :
            /\ text[i] = w
            /\ \A j \in 1..(i - 1) : text[j] \in {" ", NL}
            /\ \A j \in (i + 1)..Len(text) :
                  text[j] # " " => \E k \in (i + 1)..j : text[k] = NL

\* C37: validateURL always returns a result; isValid is false exactly when
\* the category is unsafe; a url that does not parse, or that matches one of
\* the unsafe patterns, is rejected without a classifier call; and a
\* classifier call that fails, or whose verdict is none of the three, gives
\* an accepted result of category potentially_unsafe.
C37_FailOpen ==
    /\ vurl.pc \in {"start", "classifier", "returned"}
    /\ vurl.pc = "returned" =>
          /\ vurl.result.category \in {"safe", "potentially_unsafe", "unsafe"}
          /\ (~vurl.result.isValid) = (vurl.result.category = "unsafe")
    /\ (~ParsesAsURL(vurl.url) \/ MatchesUnsafePattern(vurl.url)) =>
          /\ ~vurl.classifierCalled
          /\ vurl.pc = "returned" =>
                ~vurl.result.isValid /\ vurl.result.category = "unsafe"
    /\ (vurl.pc = "returned" /\ vurl.classifierCalled /\
        (vurl.outcome.kind # "text" \/ ~RecognisedVerdict(vurl.outcome.text))) =>
          vurl.result.isValid /\ vurl.result.category = "potentially_unsafe"

\* the classifier call of a well-formed public url was rejected and the
\* url was accepted as potentially unsafe
C37_Witness ==
    /\ vurl.pc = "returned"
    /\ vurl.classifierCalled
    /\ vurl.outcome.kind = "rejects"
    /\ vurl.result.isValid
    /\ vurl.result.category = "potentially_unsafe"

\* ================================================ dual-generation endpoint
\* POST of generate-image-dual (route.ts 9-212): fetchHTML, then cleanHTML
\* and generateImagePromptFromHTML in parallel, then two provider.generate
\* calls in parallel.  dual.events is what the handler has enqueued,
\* dual.branch the state of the two promises of the Promise.all in progress.

FallbackHTML == <<"<html>", "fallback", "</html>">>
ErrorHTML == <<"<html>", "Error processing HTML", "</html>">>

\* cleanHTML without its fallbacks
cleanHTML_NoFallback(out) ==
    IF out.kind = "threw" THEN <<>> ELSE Trim(out.text)

\* cleanHTML (clean-html.ts): the trimmed text of the model, its fallback
\* document when the text is empty, its error document when the call throws
cleanHTML(out) ==
    IF out.kind = "threw" THEN ErrorHTML
    ELSE IF out.text = <<>> \/ Len(Trim(out.text)) = 0 THEN FallbackHTML
    ELSE Trim(out.text)

\* the test both parallel paths make on their result:
\* !x || x.trim().length === 0
EmptyResult(x) == x = <<>> \/ Len(Trim(x)) = 0

DualEvent(step, htmlBased, descriptionBased) ==
    [step |-> step, htmlBasedImage |-> htmlBased,
     descriptionBasedImage |-> descriptionBased]

Plain(step) == DualEvent(step, Absent, Absent)

Pending == <<"pending", "pending">>

\* Promise.all of the two promises: it rejects as soon as one has rejected
\* and is fulfilled once both are
PromiseAll(branch) ==
    IF branch[1] = "rejected" \/ branch[2] = "rejected" THEN "rejected"
    ELSE IF branch[1] = "fulfilled" /\ branch[2] = "fulfilled" THEN "fulfilled"
    ELSE "pending"

\* the catch block of start: one error event, then close
DualCatch(d) ==
    [d EXCEPT !.events = Append(@, Plain("error")), !.closed = TRUE,
              !.pc = "done"]

NotDescribed == [kind |-> "", text |-> <<>>]
NotGenerated == [kind |-> "", src |-> "none", data |-> 0]

DualInit ==
    /\ PipeIdle
    /\ AuxIdle
    /\ prov = <<>>
    /\ hook = <<>>
    /\ usage = <<>>
    /\ fetch = <<>>
    /\ overlap = <<>>
    /\ sse = <<>>
    /\ vurl = <<>>
    /\ dual = [pc |-> "init", status |-> 0, events |-> <<>>, closed |-> FALSE,
               fetched |-> FALSE, branch |-> Pending,
               cleanOut |-> NotDescribed, describeOut |-> NotDescribed,
               cleaned |-> <<>>, prompt |-> <<>>,
               responses |-> <<NotGenerated, NotGenerated>>,
               images |-> <<Absent, Absent>>]

\* POST up to the await of fetchHTML; without a url it answers 400
DU_Start(hasUrl) ==
    /\ dual.pc = "init"
    /\ dual' = IF ~hasUrl THEN [dual EXCEPT !.pc = "done", !.status = 400]
               ELSE [dual EXCEPT !.pc = "fetch", !.status = 200,
                                 !.events = <<Plain("fetching")>>]
    /\ UNCHANGED <<pipeVars, keys, lookup, chain, prov, hook, usage, fetch,
                   overlap, sse, vurl>>

\* fetchHTML settles: up to the await of the first Promise.all
DU_Fetched(ok) ==
    /\ dual.pc = "fetch"
    /\ dual' = IF ~ok THEN DualCatch(dual)
               ELSE [dual EXCEPT !.pc = "processing", !.fetched = TRUE,
                                 !.events = @ \o <<Plain("fetched"),
                                                    Plain("processing")>>]
    /\ UNCHANGED <<pipeVars, keys, lookup, chain, prov, hook, usage, fetch,
                   overlap, sse, vurl>>

\* the code after the first Promise.all once it has settled
AfterProcessing(d) ==
    IF PromiseAll(d.branch) = "pending" THEN d
    ELSE IF PromiseAll(d.branch) = "rejected" THEN DualCatch(d)
    ELSE [d EXCEPT !.pc = "generating", !.branch = Pending,
                   !.events = @ \o <<Plain("processed"), Plain("generating")>>]

\* the cleaning model call settles: path 1 of the first Promise.all
DU_Cleaned(out) ==
    /\ dual.pc = "processing"
    /\ dual.branch[1] = "pending"
    /\ LET cleaned == cleanHTML(out)
       IN dual' = AfterProcessing(
                     [dual EXCEPT !.cleanOut = out,
                                  !.cleaned = cleaned,
                                  !.branch[1] = IF EmptyResult(cleaned)
                                                THEN "rejected" ELSE "fulfilled"])
    /\ UNCHANGED <<pipeVars, keys, lookup, chain, prov, hook, usage, fetch,
                   overlap, sse, vurl>>

\* the describe model call settles: path 2 of the first Promise.all
DU_Described(out) ==
    /\ dual.pc = "processing"
    /\ dual.branch[2] = "pending"
    /\ LET prompt == GenerateImagePromptFromHTML(out)
       IN dual' = AfterProcessing(
                     [dual EXCEPT !.describeOut = out,
                                  !.prompt = prompt,
                                  !.branch[2] = IF EmptyResult(prompt)
                                                THEN "rejected" ELSE "fulfilled"])
    /\ UNCHANGED <<pipeVars, keys, lookup, chain, prov, hook, usage, fetch,
                   overlap, sse, vurl>>

\* the code after the second Promise.all once it has settled
AfterGenerating(d) ==
    IF PromiseAll(d.branch) = "pending" THEN d
    ELSE IF PromiseAll(d.branch) = "rejected" THEN DualCatch(d)
    ELSE [d EXCEPT !.pc = "done", !.closed = TRUE,
                   !.events = @ \o <<DualEvent("completed", d.images[1],
                                                d.images[2]),
                                      Plain("[DONE]")>>]

\* provider.generate number k settles (1: from the cleaned HTML, 2: from the
\* description); once the handler has ended a late result is dropped
DU_Generated(k, r) ==
    /\ dual.pc \in {"generating", "done"}
    /\ \E i \in DOMAIN dual.events : dual.events[i].step = "generating"
    /\ dual.branch[k] = "pending"
    /\ LET settled == [dual EXCEPT
                          !.responses[k] = r,
                          !.images[k] = Generate(r),
                          !.branch[k] = IF Generate(r) = Absent
                                        THEN "rejected" ELSE "fulfilled"]
       IN dual' = IF dual.pc = "done" THEN settled
                  ELSE AfterGenerating(settled)
    /\ UNCHANGED <<pipeVars, keys, lookup, chain, prov, hook, usage, fetch,
                   overlap, sse, vurl>>

DualNext ==
    \/ \E hasUrl \in BOOLEAN : DU_Start(hasUrl)
    \/ \E ok \in BOOLEAN : DU_Fetched(ok)
    \/ \E out \in DescribeOutcomes : DU_Cleaned(out)
    \/ \E out \in DescribeOutcomes : DU_Described(out)
    \/ \E k \in 1..2, r \in GenerateResponses : DU_Generated(k, r)

DualSpec == DualInit /\ [][DualNext]_vars

DualSteps == [i \in DOMAIN dual.events |-> dual.events[i].step]
DualOrder ==
    <<"fetching", "fetched", "processing", "processed", "generating",
      "completed", "[DONE]">>
DualEmitted(step) == \E i \in DOMAIN dual.events : dual.events[i].step = step

\* a model call behind cleanHTML or generateImagePromptFromHTML failed or
\* gave an empty text
ModelCallFailed(out) ==
    out.kind = "threw" \/ (out.kind = "text" /\ EmptyResult(out.text))

\* the steps enqueued are a prefix of DualOrder, or a prefix of it before
\* completed followed by one error event
DualSequenceOk ==
    \/ IsPrefix(DualSteps, DualOrder)
    \/ /\ Len(DualSteps) >= 2
       /\ DualSteps[Len(DualSteps)] = "error"
       /\ Len(DualSteps) <= 6
       /\ IsPrefix(SubSeq(DualSteps, 1, Len(DualSteps) - 1), DualOrder)

====
